---- MODULE Spec2Model ----
(***************************************************************************)
(* perfgrind: the profile aggregator (Profile.cpp) and the address         *)
(* resolver (AddressResolver.cpp) as state machines.                       *)
(*                                                                         *)
(* Addresses are the program's __u64 / uint64_t values.  The model keeps   *)
(* their modular arithmetic but scales the word to 30 bits, so that every  *)
(* intermediate sum stays inside TLC's integers; the perf context markers  *)
(* keep their distance from the top of the word.                           *)
(***************************************************************************)
EXTENDS Integers, Sequences, FiniteSets, TLC

\* ------------------------------------------------------------------------
\* Words
\* ------------------------------------------------------------------------
AddrModulus == 2^30

AddU64(a, b) == (a + b) % AddrModulus

SubU64(a, b) == ((a - b) + AddrModulus) % AddrModulus

\* linux/perf_event.h, as used by Profile.cpp
PERF_CONTEXT_MAX == AddrModulus - 4095

PERF_CONTEXT_USER == AddrModulus - 512

PERF_CONTEXT_KERNEL == AddrModulus - 128

PERF_CONTEXT_HV == AddrModulus - 32

PERF_MAX_STACK_DEPTH == 127

PERF_RECORD_MMAP == 1

PERF_RECORD_SAMPLE == 9

\* in the log of the records read: a record the stream ended in the middle of
CutRecord == 0

\* a record type that Profile::load has no case for
PERF_RECORD_COMM == 3

\* ------------------------------------------------------------------------
\* Bounds of the model
\* ------------------------------------------------------------------------
\* records Profile::load reads before the stream ends
MaxRecords == 3

\* calls of Profile::fixupBranches after load
MaxFixups == 2

\* symbols the caller puts into the profile's symbol table
MaxProfileSymbols == 2

\* symbols in a symbol table of an ELF file
MaxSectionSymbols == 2

\* entries handed to one call of AddressResolver::resolve
MaxEntries == 2

\* ------------------------------------------------------------------------
\* Range and the range-keyed std::map (in iteration order)
\* ------------------------------------------------------------------------
EmptyFn == [x \in {} |-> 0]

\* Range::operator<
RangeLess(r1, r2) == r1.end <= r2.start

\* Range(Address value): the one-address range at value
PointRange(a) == [start |-> a, end |-> AddU64(a, 1)]

\* the last position whose key is not greater than k (0: none)
MapUpperPos(m, k) ==
    LET S == {i \in 1..Len(m) : ~RangeLess(k, m[i])}
    IN  IF S = {} THEN 0 ELSE CHOOSE i \in S : \A j \in S : j <= i

\* std::map::insert: TRUE iff no stored key is equivalent to v's
MapCanInsert(m, v) ==
    LET p == MapUpperPos(m, v)
    IN  IF p = 0 THEN TRUE ELSE RangeLess(m[p], v)

\* std::map::insert of the element v (a record with start and end)
MapInsert(m, v) ==
    LET p == MapUpperPos(m, v)
    IN  IF MapCanInsert(m, v)
        THEN SubSeq(m, 1, p) \o <<v>> \o SubSeq(m, p + 1, Len(m))
        ELSE m

\* std::map::lower_bound: the first position whose key is not less than k
MapLowerBound(m, k) ==
    LET S == {i \in 1..Len(m) : ~RangeLess(m[i], k)}
    IN  IF S = {} THEN Len(m) + 1 ELSE CHOOSE i \in S : \A j \in S : i <= j

\* std::map::find: the position of the stored key equivalent to k (0: end())
MapFind(m, k) ==
    LET i == MapLowerBound(m, k)
    IN  IF i <= Len(m) /\ ~RangeLess(k, m[i]) THEN i ELSE 0

\* ------------------------------------------------------------------------
\* EntryData, MemoryObjectData
\* ------------------------------------------------------------------------
\* EntryData::appendBranch on a BranchStorage
EntryAppendBranch(branches, address, count) ==
    IF address \in DOMAIN branches
    THEN [branches EXCEPT ![address] = @ + count]
    ELSE (address :> count) @@ branches

\* MemoryObjectData::appendEntry on an EntryStorage
AppendEntry(entries, address, count) ==
    IF address \in DOMAIN entries
    THEN [entries EXCEPT ![address].count = @ + count]
    ELSE (address :> [count |-> count, branches |-> EmptyFn]) @@ entries

\* appendBranch counting the branch at its caller as a sample
AppendBranch_CountsCaller(entries, from, to, count) ==
    [AppendEntry(entries, from, count) EXCEPT
        ![from].branches = EntryAppendBranch(@, to, count)]

\* MemoryObjectData::appendBranch
AppendBranch(entries, from, to, count) ==
    LET e == AppendEntry(entries, from, 0)
    IN  [e EXCEPT ![from].branches = EntryAppendBranch(@, to, count)]

\* ------------------------------------------------------------------------
\* State
\* ------------------------------------------------------------------------
VARIABLES
    memoryObjects,      \* ProfilePrivate::memoryObjects, in map order
    symbols,            \* ProfilePrivate::symbols, in map order
    mmapEventCount,     \* ProfilePrivate::mmapEventCount
    goodSamplesCount,   \* ProfilePrivate::goodSamplesCount
    badSamplesCount,    \* ProfilePrivate::badSamplesCount
    event,              \* the pe::perf_event buffer of Profile::load
    mode,               \* the Mode argument of Profile::load
    phase,              \* "reading": inside the read loop; "loaded": load returned
    stream,             \* the types of the records read so far
    fixups,             \* calls of Profile::fixupBranches made so far
    arPc,               \* the position of AddressResolver's constructor
    files,              \* the files ::open finds, by path
    objectSize,         \* the objectSize argument of the constructor
    elfh,               \* the constructor's ElfHolder
    openFds,            \* the descriptors the process has open
    sysCalls,           \* the calls of ::open, ::close, elf_begin, elf_end so far
    baseAddress,        \* AddressResolverPrivate::baseAddress
    origBaseAddress,    \* AddressResolverPrivate::origBaseAddress
    arSymbols,          \* AddressResolverPrivate::symbols, as a tree
    symTabLoaded,       \* the constructor's local symTabLoaded
    query               \* the loadBase and the entries of the call of resolve

profileVars == <<memoryObjects, symbols, mmapEventCount, goodSamplesCount,
                 badSamplesCount, event, mode, phase, stream, fixups>>

resolverVars == <<arPc, files, objectSize, elfh, openFds, sysCalls, baseAddress,
                  origBaseAddress, arSymbols, symTabLoaded, query>>

vars == <<profileVars, resolverVars>>

\* ------------------------------------------------------------------------
\* Records of the event stream
\* ------------------------------------------------------------------------
NoFrames == <<>>

MmapRecord(address, length, fileName) ==
    [type |-> PERF_RECORD_MMAP, address |-> address, length |-> length,
     fileName |-> fileName, ip |-> 0, callchainSize |-> 0,
     frames |-> NoFrames, fill |-> 0]

\* frames: callchain[0..Len(frames)-1]; every later slot of the array holds fill
SampleRecord(ip, callchainSize, frames, fill) ==
    [type |-> PERF_RECORD_SAMPLE, address |-> 0, length |-> 0,
     fileName |-> "", ip |-> ip, callchainSize |-> callchainSize,
     frames |-> frames, fill |-> fill]

OtherRecord ==
    [type |-> PERF_RECORD_COMM, address |-> 0, length |-> 0,
     fileName |-> "", ip |-> 0, callchainSize |-> 0,
     frames |-> NoFrames, fill |-> 0]

\* event.callchain[i]
Callchain(ev, i) == IF i < Len(ev.frames) THEN ev.frames[i + 1] ELSE ev.fill

\* ------------------------------------------------------------------------
\* ProfilePrivate
\* ------------------------------------------------------------------------
\* the MemoryObject that processMmapEvent builds from the event
NewMemoryObject(ev) ==
    [start |-> ev.address, end |-> AddU64(ev.address, ev.length),
     fileName |-> ev.fileName, entries |-> EmptyFn]

\* processMmapEvent storing the memory object whatever the map holds
ProcessMmapEvent_NoClashCheck(objs, ev) ==
    LET v == NewMemoryObject(ev)
        p == MapUpperPos(objs, v)
    IN  SubSeq(objs, 1, p) \o <<v>> \o SubSeq(objs, p + 1, Len(objs))

\* processMmapEvent putting the new memory object in the place of the one
\* it clashes with
ProcessMmapEvent_KeepLast(objs, ev) ==
    IF MapCanInsert(objs, NewMemoryObject(ev))
    THEN MapInsert(objs, NewMemoryObject(ev))
    ELSE [objs EXCEPT ![MapUpperPos(objs, NewMemoryObject(ev))] = NewMemoryObject(ev)]

\* ProfilePrivate::processMmapEvent on the memory-object map
ProcessMmapEvent(objs, ev) == MapInsert(objs, NewMemoryObject(ev))

\* the first test of processSampleEvent with the depth limit off by one
SampleRejected_DepthOffByOne(ev) ==
    \/ Callchain(ev, 0) # PERF_CONTEXT_USER
    \/ ev.callchainSize < 2
    \/ ev.callchainSize >= PERF_MAX_STACK_DEPTH

\* the first test of processSampleEvent: the sample is rejected outright
SampleRejected(ev) ==
    \/ Callchain(ev, 0) # PERF_CONTEXT_USER
    \/ ev.callchainSize < 2
    \/ ev.callchainSize > PERF_MAX_STACK_DEPTH

\* the loop body with a marker only ever setting skipFrame
WalkStep_NoUserReset(w, ev, i) ==
    LET callFrom == Callchain(ev, i)
        o == MapFind(w.objs, PointRange(callFrom))
    IN  IF callFrom > PERF_CONTEXT_MAX
        THEN [w EXCEPT !.skipFrame = (@ \/ callFrom # PERF_CONTEXT_USER)]
        ELSE IF w.skipFrame \/ callFrom = w.callTo THEN w
        ELSE IF o = 0 THEN w
        ELSE [objs |-> [w.objs EXCEPT ![o].entries =
                            AppendBranch(@, callFrom, w.callTo, 1)],
              callTo |-> callFrom,
              skipFrame |-> w.skipFrame]

\* one iteration of the for loop of processSampleEvent, at frame i;
\* w holds the loop's state: the map, callTo and skipFrame
WalkStep(w, ev, i) ==
    LET callFrom == Callchain(ev, i)
        o == MapFind(w.objs, PointRange(callFrom))
    IN  IF callFrom > PERF_CONTEXT_MAX
        THEN [w EXCEPT !.skipFrame = (callFrom # PERF_CONTEXT_USER)]
        ELSE IF w.skipFrame \/ callFrom = w.callTo THEN w
        ELSE IF o = 0 THEN w
        ELSE [objs |-> [w.objs EXCEPT ![o].entries =
                            AppendBranch(@, callFrom, w.callTo, 1)],
              callTo |-> callFrom,
              skipFrame |-> w.skipFrame]

\* the iterations of the for loop for the frames lo .. hi - 1, in order
\* (split in halves to keep the evaluation shallow)
RECURSIVE WalkFrames(_, _, _, _)
WalkFrames(w, ev, lo, hi) ==
    IF lo >= hi THEN w
    ELSE IF hi = lo + 1 THEN WalkStep(w, ev, lo)
    ELSE LET mid == (lo + hi) \div 2
             first == WalkFrames(w, ev, lo, mid)
         IN  IF first.skipFrame \in BOOLEAN
             THEN WalkFrames(first, ev, mid, hi)
             ELSE first

\* the call-graph part of processSampleEvent: the map after the for loop
WalkCallchain(objs, ev) ==
    WalkFrames([objs |-> objs, callTo |-> ev.ip, skipFrame |-> FALSE],
               ev, 2, ev.callchainSize).objs

\* processSampleEvent returning without a count when no memory object holds ip
ProcessSampleEvent_UnmappedUncounted(objs, good, bad, ev, m) ==
    IF SampleRejected(ev)
    THEN [objs |-> objs, good |-> good, bad |-> bad + 1]
    ELSE LET o == MapFind(objs, PointRange(ev.ip))
         IN  IF o = 0
             THEN [objs |-> objs, good |-> good, bad |-> bad]
             ELSE [objs |-> [objs EXCEPT ![o].entries = AppendEntry(@, ev.ip, 1)],
                   good |-> good + 1, bad |-> bad]

\* ProfilePrivate::processSampleEvent: the map and the two counters after it
ProcessSampleEvent(objs, good, bad, ev, m) ==
    IF SampleRejected(ev)
    THEN [objs |-> objs, good |-> good, bad |-> bad + 1]
    ELSE LET o == MapFind(objs, PointRange(ev.ip))
         IN  IF o = 0
             THEN [objs |-> objs, good |-> good, bad |-> bad + 1]
             ELSE LET counted == [objs EXCEPT ![o].entries =
                                      AppendEntry(@, ev.ip, 1)]
                  IN  [objs |-> IF m # "CallGraph" THEN counted
                                ELSE WalkCallchain(counted, ev),
                       good |-> good + 1, bad |-> bad]

\* the number of parts of a record as operator>> reads them: the header,
\* then the fields of the body in order
RecordParts == 4

\* the buffer after is.read stored the first got parts of rec over it
PartlyRead(buffer, rec, got) ==
    IF got = 0 THEN buffer
    ELSE IF rec.type = PERF_RECORD_MMAP
    THEN [buffer EXCEPT !.type = rec.type,
                        !.address = IF got >= 2 THEN rec.address ELSE @,
                        !.length = IF got >= 3 THEN rec.length ELSE @,
                        !.fileName = IF got >= 4 THEN rec.fileName ELSE @]
    ELSE [buffer EXCEPT !.type = rec.type,
                        !.ip = IF got >= 2 THEN rec.ip ELSE @,
                        !.callchainSize = IF got >= 3 THEN rec.callchainSize ELSE @,
                        !.frames = IF got >= 4 THEN rec.frames ELSE @,
                        !.fill = IF got >= 4 THEN rec.fill ELSE @]

\* pe::operator>> on a stream that holds only the first got parts of rec:
\* the buffer it leaves, and whether eofbit and failbit are set
StreamRead(buffer, rec, got) ==
    [event |-> PartlyRead(buffer, rec, got), failed |-> got < RecordParts]

\* load without the test of the stream after the read
LoadBreaks_Never(r) == FALSE

\* if (is.eof() || is.fail()) break;
LoadBreaks(r) == r.failed

\* the switch of Profile::load on the record in the buffer: the map and the
\* counters after it
ProcessRecord(objs, mmaps, good, bad, ev, m) ==
    IF ev.type = PERF_RECORD_MMAP
    THEN [objs |-> ProcessMmapEvent(objs, ev), mmaps |-> mmaps + 1,
          good |-> good, bad |-> bad]
    ELSE IF ev.type = PERF_RECORD_SAMPLE
    THEN [objs |-> ProcessSampleEvent(objs, good, bad, ev, m).objs, mmaps |-> mmaps,
          good |-> ProcessSampleEvent(objs, good, bad, ev, m).good,
          bad |-> ProcessSampleEvent(objs, good, bad, ev, m).bad]
    ELSE [objs |-> objs, mmaps |-> mmaps, good |-> good, bad |-> bad]

\* the end of load erasing only the first memory object without entries
DropEmptyObjects_FirstOnly(objs) ==
    LET E == {i \in 1..Len(objs) : DOMAIN objs[i].entries = {}}
        f == CHOOSE i \in E : \A j \in E : i <= j
    IN  IF E = {} THEN objs
        ELSE SubSeq(objs, 1, f - 1) \o SubSeq(objs, f + 1, Len(objs))

\* the end of Profile::load: memory objects without entries are dropped
DropEmptyObjects(objs) ==
    LET HasEntries(o) == DOMAIN o.entries # {}
    IN  SelectSeq(objs, HasEntries)

\* the inner loop of fixupBranches appending every branch at its old target
RECURSIVE FixupEntryBranches_KeepTarget(_, _, _, _)
FixupEntryBranches_KeepTarget(branches, todo, syms, fixed) ==
    IF todo = {} THEN fixed
    ELSE LET a == CHOOSE x \in todo : \A y \in todo : x <= y
         IN  FixupEntryBranches_KeepTarget(branches, todo \ {a}, syms,
                                EntryAppendBranch(fixed, a, branches[a]))

\* the inner loop of fixupBranches with a later branch to a symbol taking
\* the place of an earlier one
RECURSIVE FixupEntryBranches_LastWins(_, _, _, _)
FixupEntryBranches_LastWins(branches, todo, syms, fixed) ==
    IF todo = {} THEN fixed
    ELSE LET a == CHOOSE x \in todo : \A y \in todo : x <= y
             s == MapFind(syms, PointRange(a))
             to == IF s # 0 THEN syms[s].start ELSE a
         IN  FixupEntryBranches_LastWins(branches, todo \ {a}, syms,
                                         (to :> branches[a]) @@ fixed)

\* the inner loop of MemoryObjectData::fixupBranches over the branches in todo
RECURSIVE FixupEntryBranches(_, _, _, _)
FixupEntryBranches(branches, todo, syms, fixed) ==
    IF todo = {} THEN fixed
    ELSE LET a == CHOOSE x \in todo : \A y \in todo : x <= y
             s == MapFind(syms, PointRange(a))
             to == IF s # 0 THEN syms[s].start ELSE a
         IN  FixupEntryBranches(branches, todo \ {a}, syms,
                                EntryAppendBranch(fixed, to, branches[a]))

\* MemoryObjectData::fixupBranches on an EntryStorage
FixupEntries(entries, syms) ==
    [a \in DOMAIN entries |->
        IF DOMAIN entries[a].branches = {} THEN entries[a]
        ELSE [count |-> entries[a].count,
              branches |-> FixupEntryBranches(entries[a].branches,
                               DOMAIN entries[a].branches, syms, EmptyFn)]]

\* Profile::fixupBranches on the memory-object map
FixupObjects(objs, syms) ==
    [i \in 1..Len(objs) |-> [objs[i] EXCEPT !.entries = FixupEntries(@, syms)]]

\* ------------------------------------------------------------------------
\* The red-black tree of std::map (libstdc++ _Rb_tree), for the table that
\* constructFakeSymbols fills: its keys need not be ordered by
\* Range::operator<, so what insert does depends on the pointers of the
\* tree.  A tree is the sequence of its nodes: first _M_header, whose
\* parent, left and right are the root, the leftmost and the rightmost node,
\* then the elements in insertion order.  0 is the null pointer.
\* ------------------------------------------------------------------------
Header == 0 + 1

\* _M_header holds no element
NoElement == [start |-> 0, end |-> 0, size |-> 0, binding |-> 0, name |-> "_M_header"]

EmptyTree ==
    <<[sym |-> NoElement, red |-> TRUE, parent |-> 0, left |-> Header, right |-> Header]>>

\* a walk of at most fuel steps from x along left (dir = "left") or right
\* pointers to the node that has none
RECURSIVE TreeExtreme(_, _, _, _)
TreeExtreme(t, x, dir, fuel) ==
    LET next == IF dir = "left" THEN t[x].left ELSE t[x].right
    IN  IF next = 0 THEN x
        ELSE IF fuel = 0 THEN x
        ELSE TreeExtreme(t, next, dir, fuel - 1)

\* the climb of _Rb_tree_increment (dir = "right") and _Rb_tree_decrement
\* (dir = "left"): while (x == y->dir) { x = y; y = y->parent; }
RECURSIVE TreeClimb(_, _, _, _, _)
TreeClimb(t, x, y, dir, fuel) ==
    LET child == IF dir = "left" THEN t[y].left ELSE t[y].right
    IN  IF x # child THEN [x |-> x, y |-> y]
        ELSE IF fuel = 0 THEN [x |-> x, y |-> y]
        ELSE TreeClimb(t, y, t[y].parent, dir, fuel - 1)

\* _Rb_tree_increment
TreeIncrement(t, x) ==
    IF t[x].right # 0
    THEN TreeExtreme(t, t[x].right, "left", Len(t))
    ELSE LET c == TreeClimb(t, x, t[x].parent, "right", Len(t))
         IN  IF t[c.x].right # c.y THEN c.y ELSE c.x

\* _Rb_tree_decrement
TreeDecrement(t, x) ==
    IF t[x].red /\ t[x].parent # 0 /\ t[t[x].parent].parent = x THEN t[x].right
    ELSE IF t[x].left # 0
    THEN TreeExtreme(t, t[x].left, "right", Len(t))
    ELSE TreeClimb(t, x, t[x].parent, "left", Len(t)).y

\* the nodes from begin() to end(), by operator++; the walk stops after as
\* many steps as there are elements
RECURSIVE TreeWalk(_, _, _)
TreeWalk(t, x, fuel) ==
    IF x = Header THEN <<>>
    ELSE IF fuel = 0 THEN <<>>
    ELSE <<x>> \o TreeWalk(t, TreeIncrement(t, x), fuel - 1)

\* the elements of the map in iteration order
TreeItems(t) ==
    LET order == TreeWalk(t, t[Header].left, Len(t) - 1)
    IN  [i \in 1..Len(order) |-> t[order[i]].sym]

\* the descent of _M_get_insert_unique_pos: the last node visited and the
\* result of the last comparison
RECURSIVE TreeDescend(_, _, _, _, _)
TreeDescend(t, k, x, y, comp) ==
    IF x = 0 THEN [y |-> y, comp |-> comp]
    ELSE LET c == RangeLess(k, t[x].sym)
         IN  TreeDescend(t, k, IF c THEN t[x].left ELSE t[x].right, x, c)

\* _M_get_insert_unique_pos: whether k is inserted, and below which node;
\* left is the __insert_left that _M_insert_ and _M_insert_node compute
TreeInsertPos(t, k) ==
    LET d == TreeDescend(t, k, t[Header].parent, Header, TRUE)
        atBegin == IF d.comp THEN d.y = t[Header].left ELSE FALSE
        j == IF d.comp THEN TreeDecrement(t, d.y) ELSE d.y
        free == IF atBegin THEN TRUE ELSE RangeLess(t[j].sym, k)
    IN  [insert |-> free, y |-> d.y, left |-> d.comp]

\* _Rb_tree_rotate_left
TreeRotateLeft(t, x) ==
    LET y == t[x].right
        yl == t[y].left
        xp == t[x].parent
        t1 == [t EXCEPT ![x].right = yl, ![y].parent = xp]
        t2 == IF yl # 0 THEN [t1 EXCEPT ![yl].parent = x] ELSE t1
        t3 == IF x = t[Header].parent THEN [t2 EXCEPT ![Header].parent = y]
              ELSE IF x = t[xp].left THEN [t2 EXCEPT ![xp].left = y]
              ELSE [t2 EXCEPT ![xp].right = y]
    IN  [t3 EXCEPT ![y].left = x, ![x].parent = y]

\* _Rb_tree_rotate_right
TreeRotateRight(t, x) ==
    LET y == t[x].left
        yr == t[y].right
        xp == t[x].parent
        t1 == [t EXCEPT ![x].left = yr, ![y].parent = xp]
        t2 == IF yr # 0 THEN [t1 EXCEPT ![yr].parent = x] ELSE t1
        t3 == IF x = t[Header].parent THEN [t2 EXCEPT ![Header].parent = y]
              ELSE IF x = t[xp].right THEN [t2 EXCEPT ![xp].right = y]
              ELSE [t2 EXCEPT ![xp].left = y]
    IN  [t3 EXCEPT ![y].right = x, ![x].parent = y]

\* the loop of _Rb_tree_insert_and_rebalance, from the red node x upwards
RECURSIVE TreeRebalance(_, _)
TreeRebalance(t, x) ==
    IF x = t[Header].parent THEN [t EXCEPT ![t[Header].parent].red = FALSE]
    ELSE IF ~t[t[x].parent].red THEN [t EXCEPT ![t[Header].parent].red = FALSE]
    ELSE LET xp == t[x].parent
             xpp == t[xp].parent
         IN  IF xp = t[xpp].left
             THEN LET y == t[xpp].right
                      yRed == IF y = 0 THEN FALSE ELSE t[y].red
                  IN  IF yRed
                      THEN TreeRebalance([t EXCEPT ![xp].red = FALSE,
                                                   ![y].red = FALSE,
                                                   ![xpp].red = TRUE], xpp)
                      ELSE LET inner == x = t[xp].right
                               x1 == IF inner THEN xp ELSE x
                               t1 == IF inner THEN TreeRotateLeft(t, xp) ELSE t
                               t2 == [t1 EXCEPT ![t1[x1].parent].red = FALSE,
                                                ![xpp].red = TRUE]
                           IN  TreeRebalance(TreeRotateRight(t2, xpp), x1)
             ELSE LET y == t[xpp].left
                      yRed == IF y = 0 THEN FALSE ELSE t[y].red
                  IN  IF yRed
                      THEN TreeRebalance([t EXCEPT ![xp].red = FALSE,
                                                   ![y].red = FALSE,
                                                   ![xpp].red = TRUE], xpp)
                      ELSE LET inner == x = t[xp].left
                               x1 == IF inner THEN xp ELSE x
                               t1 == IF inner THEN TreeRotateRight(t, xp) ELSE t
                               t2 == [t1 EXCEPT ![t1[x1].parent].red = FALSE,
                                                ![xpp].red = TRUE]
                           IN  TreeRebalance(TreeRotateLeft(t2, xpp), x1)

\* _Rb_tree_insert_and_rebalance: the new node for v below y, at its left
\* or its right
TreeAttach(t, v, y, left) ==
    LET x == Len(t) + 1
        new == [sym |-> v, red |-> TRUE, parent |-> y, left |-> 0, right |-> 0]
        t1 == Append(t, new)
        t2 == IF left
              THEN IF y = Header
                   THEN [t1 EXCEPT ![Header].left = x, ![Header].parent = x,
                                   ![Header].right = x]
                   ELSE IF y = t[Header].left
                   THEN [t1 EXCEPT ![y].left = x, ![Header].left = x]
                   ELSE [t1 EXCEPT ![y].left = x]
              ELSE IF y = t[Header].right
                   THEN [t1 EXCEPT ![y].right = x, ![Header].right = x]
                   ELSE [t1 EXCEPT ![y].right = x]
    IN  TreeRebalance(t2, x)

\* std::map::insert(const value_type&) and insert(value_type&&), which are
\* _M_insert_unique
TreeInsert(t, v) ==
    LET p == TreeInsertPos(t, v)
    IN  IF p.insert THEN TreeAttach(t, v, p.y, p.left) ELSE t

\* _M_lower_bound: the last node at which the descent turned left
RECURSIVE TreeLowerBound(_, _, _, _)
TreeLowerBound(t, k, x, y) ==
    IF x = 0 THEN y
    ELSE IF RangeLess(t[x].sym, k) THEN TreeLowerBound(t, k, t[x].right, y)
    ELSE TreeLowerBound(t, k, t[x].left, x)

\* _M_get_insert_hint_unique_pos for the hint that lower_bound gave: end(),
\* or a node whose key k is less than
TreeHintPos(t, k, hint) ==
    LET before == TreeDecrement(t, hint)
        last == t[Header].right
    IN  IF hint = Header
        THEN IF Len(t) = 1 THEN TreeInsertPos(t, k)
             ELSE IF RangeLess(t[last].sym, k)
             THEN [insert |-> TRUE, y |-> last, left |-> RangeLess(k, t[last].sym)]
             ELSE TreeInsertPos(t, k)
        ELSE IF hint = t[Header].left THEN [insert |-> TRUE, y |-> hint, left |-> TRUE]
        ELSE IF RangeLess(t[before].sym, k)
        THEN IF t[before].right = 0
             THEN [insert |-> TRUE, y |-> before, left |-> RangeLess(k, t[before].sym)]
             ELSE [insert |-> TRUE, y |-> hint, left |-> TRUE]
        ELSE TreeInsertPos(t, k)

\* std::map::insert(Pair&&) where the library looks the key up with
\* lower_bound and inserts with emplace_hint
TreeInsertHinted(t, v) ==
    LET i == TreeLowerBound(t, v, t[Header].parent, Header)
        free == IF i = Header THEN TRUE ELSE RangeLess(v, t[i].sym)
        p == TreeHintPos(t, v, i)
    IN  IF free
        THEN IF p.insert THEN TreeAttach(t, v, p.y, p.left) ELSE t
        ELSE t

\* the ways a libstdc++ implements std::map::insert(Pair&&), which is the
\* overload taken for an lvalue element: _M_emplace_unique, or lower_bound
\* and emplace_hint.  They differ only on keys that Range::operator< does
\* not order
MapLibraries == {"emplace_unique", "lower_bound_hint"}

TreeInsertLvalue(t, v, lib) ==
    IF lib = "emplace_unique" THEN TreeInsert(t, v) ELSE TreeInsertHinted(t, v)

\* the tree of a map whose elements arrive in the order of seq
RECURSIVE TreeOf(_)
TreeOf(seq) ==
    IF seq = <<>> THEN EmptyTree
    ELSE TreeInsert(TreeOf(SubSeq(seq, 1, Len(seq) - 1)), seq[Len(seq)])

\* ------------------------------------------------------------------------
\* ELF files, as libelf shows them to the resolver
\* ------------------------------------------------------------------------
\* GELF_ST_BIND values (elf.h)
STB_LOCAL == 0

STB_GLOBAL == 1

STB_WEAK == 2

Bindings == {STB_LOCAL, STB_GLOBAL, STB_WEAK}

\* a defined function symbol of a symbol table (GElf_Sym, its name resolved)
ElfFunction(name, value, size, bind) ==
    [st_name |-> name, st_value |-> value, st_size |-> size, st_bind |-> bind,
     st_type |-> "STT_FUNC", st_shndx |-> ".text"]

\* a program header
Phdr(type, vaddr) == [p_type |-> type, p_vaddr |-> vaddr]

\* a symbol-table section, or the null Elf_Scn*
NoSymbols == [present |-> FALSE, syms |-> <<>>]

SymbolSection(syms) == [present |-> TRUE, syms |-> syms]

\* .gnu.prelink_undo (the program headers saved by prelink), or the null Elf_Scn*
NoPrelinkUndo == [present |-> FALSE, phdrs |-> <<>>]

PrelinkUndoSection(phdrs) == [present |-> TRUE, phdrs |-> phdrs]

\* ElfHolder::sections_ after memset: every pointer null
NoSections ==
    [SymTab |-> NoSymbols, DynSym |-> NoSymbols, DebugLink |-> FALSE,
     PrelinkUndo |-> NoPrelinkUndo]

\* the p_vaddr of the first PT_LOAD header, or otherwise when there is none
FirstLoadAddress(phdrs, otherwise) ==
    LET S == {i \in 1..Len(phdrs) : phdrs[i].p_type = "PT_LOAD"}
    IN  IF S = {} THEN otherwise
        ELSE phdrs[CHOOSE i \in S : \A j \in S : i <= j].p_vaddr

\* a path is the sequence of its components
Basename(path) == path[Len(path)]

\* "/usr/lib/debug" + fileName + ".debug"
DebugModuleName(path) ==
    <<"usr", "lib", "debug">> \o SubSeq(path, 1, Len(path) - 1)
        \o <<path[Len(path)] \o ".debug">>

\* ------------------------------------------------------------------------
\* ElfHolder, on e = [h: the holder, fds: the descriptors the process has
\* open, closes: the arguments of the calls of ::close so far]
\* ------------------------------------------------------------------------
NullHolder == [fd |-> -1, elf |-> <<>>, baseAddress |-> 0, sections |-> NoSections]

\* ::open(fileName, O_RDONLY): the lowest free descriptor, -1 on failure
SysOpen(fs, path, fds) ==
    IF path \in DOMAIN fs
    THEN CHOOSE fd \in 0..Cardinality(fds) :
             fd \notin fds /\ \A g \in 0..(fd - 1) : g \in fds
    ELSE -1

\* a call of the log: ::open returning fd, ::close(fd), elf_begin(fd, ...)
\* returning elf, elf_end(elf); the null handle is <<>>
SysCall(call, fd, elf) == [call |-> call, fd |-> fd, elf |-> elf]

\* ::close(fd)
SysClose(e, fd) ==
    [e EXCEPT !.fds = @ \ {fd}, !.calls = Append(@, SysCall("close", fd, <<>>))]

\* elf_end(elf)
ElfEnd(e, elf) == [e EXCEPT !.calls = Append(@, SysCall("elf_end", -1, elf))]

\* ElfHolder::loadInfo
LoadInfo(h, fs) ==
    IF h.elf = <<>> THEN h
    ELSE [h EXCEPT !.baseAddress = FirstLoadAddress(fs[h.elf].phdrs, @),
                   !.sections = fs[h.elf].sections]

\* ::open, elf_begin and loadInfo at the end of the constructor and of open
HolderAcquire(e, fs, path) ==
    LET fd == SysOpen(fs, path, e.fds)
        h == [e.h EXCEPT !.fd = fd, !.elf = IF fd < 0 THEN <<>> ELSE path]
    IN  [e EXCEPT !.h = LoadInfo(h, fs),
                  !.fds = IF fd < 0 THEN @ ELSE @ \cup {fd},
                  !.calls = @ \o <<SysCall("open", fd, <<>>),
                                   SysCall("elf_begin", fd, h.elf)>>]

\* ElfHolder::ElfHolder
HolderNew(e, fs, path) == HolderAcquire([e EXCEPT !.h = NullHolder], fs, path)

\* ElfHolder::close, without its call of ::close
HolderClose_KeepsFd(e) == [ElfEnd(e, e.h.elf) EXCEPT !.h = NullHolder]

\* ElfHolder::close
HolderClose(e) == [SysClose(ElfEnd(e, e.h.elf), e.h.fd) EXCEPT !.h = NullHolder]

\* ElfHolder::open
HolderOpen(e, fs, path) ==
    LET ended == ElfEnd(e, e.h.elf)
        closed == IF e.h.fd # 0 THEN SysClose(ended, e.h.fd) ELSE ended
    IN  HolderAcquire([closed EXCEPT !.h.baseAddress = 0, !.h.sections = NoSections],
                      fs, path)

\* ElfHolder::~ElfHolder
HolderDelete(e) == SysClose(ElfEnd(e, e.h.elf), e.h.fd)

\* ------------------------------------------------------------------------
\* AddressResolverPrivate
\* ------------------------------------------------------------------------
\* the element loadSymbolsFromSection makes of an ELF symbol
ARSymbol_Unrelocated(sym, base, origBase) ==
    [start |-> sym.st_value,
     end |-> AddU64(sym.st_value, IF sym.st_size = 0 THEN 1 ELSE sym.st_size),
     size |-> sym.st_size, binding |-> sym.st_bind, name |-> sym.st_name]

ARSymbol(sym, base, origBase) ==
    LET symStart == AddU64(SubU64(sym.st_value, origBase), base)
        symEnd == AddU64(symStart, IF sym.st_size = 0 THEN 1 ELSE sym.st_size)
    IN  [start |-> symStart, end |-> symEnd, size |-> sym.st_size,
         binding |-> sym.st_bind, name |-> sym.st_name]

\* the collision test of loadSymbolsFromSection, letting an equal binding win
ReplacesOld_OnTie(old, new) ==
    IF old.size = 0 /\ new.size # 0 THEN TRUE ELSE old.binding <= new.binding

\* the collision test of loadSymbolsFromSection
ReplacesOld(old, new) ==
    IF old.size = 0 /\ new.size # 0 THEN TRUE ELSE old.binding < new.binding

\* std::map::erase of the element at position p
MapErase(m, p) == SubSeq(m, 1, p - 1) \o SubSeq(m, p + 1, Len(m))

\* one round of the loop of loadSymbolsFromSection
LoadSymbol(table, sym, base, origBase) ==
    IF sym.st_type # "STT_FUNC" THEN table
    ELSE IF sym.st_shndx = "SHN_UNDEF" THEN table
    ELSE LET new == ARSymbol(sym, base, origBase)
             old == MapUpperPos(table, new)
         IN  IF MapCanInsert(table, new) THEN MapInsert(table, new)
             ELSE IF ReplacesOld(table[old], new)
                  THEN MapInsert(MapErase(table, old), new)
                  ELSE table

\* loadSymbolsFromSection: the table it leaves, in map order
RECURSIVE LoadSymbolsFromSection(_, _, _)
LoadSymbolsFromSection(syms, base, origBase) ==
    IF syms = <<>> THEN <<>>
    ELSE LoadSymbol(LoadSymbolsFromSection(SubSeq(syms, 1, Len(syms) - 1), base, origBase),
                    syms[Len(syms)], base, origBase)

\* setOriginalBaseAddress: the first PT_LOAD address saved in .gnu.prelink_undo
OriginalBaseAddress(origBase, undo) == FirstLoadAddress(undo.phdrs, origBase)

\* the test of the constructor for reading the companion debug file
ReadsDebugFile_Whenever(sections, loaded) == sections.DebugLink

ReadsDebugFile(sections, loaded) == sections.DebugLink /\ ~loaded

\* ARSymbolData(uint64_t): no name, and a binding that is never set
SyntheticSymbol(start, end, junk) ==
    [start |-> start, end |-> end, size |-> SubU64(end, start), binding |-> junk,
     name |-> ""]

\* one round of the loop of constructFakeSymbols, on
\* f = [newSymbols, prevEnd], for the i-th symbol of the table
FakeSymbolsStep(f, syms, i, limit, baseName, junk, lib) ==
    LET sym == syms[i]
        filled == IF SubU64(sym.start, f.prevEnd) >= 4
                  THEN TreeInsert(f.newSymbols, SyntheticSymbol(f.prevEnd, sym.start, junk))
                  ELSE f.newSymbols
        newEnd == IF i = Len(syms) THEN limit ELSE syms[i + 1].start
        label == [start |-> sym.start, end |-> newEnd,
                  size |-> SubU64(newEnd, sym.start), binding |-> junk,
                  name |-> sym.name \o "@" \o baseName]
    IN  IF sym.size = 0
        THEN [newSymbols |-> TreeInsert(filled, label), prevEnd |-> newEnd]
        ELSE [newSymbols |-> TreeInsertLvalue(filled, sym, lib), prevEnd |-> sym.end]

RECURSIVE FakeSymbolsLoop(_, _, _, _, _, _, _)
FakeSymbolsLoop(syms, i, base, limit, baseName, junk, lib) ==
    IF i = 0 THEN [newSymbols |-> EmptyTree, prevEnd |-> base]
    ELSE FakeSymbolsStep(FakeSymbolsLoop(syms, i - 1, base, limit, baseName, junk, lib),
                         syms, i, limit, baseName, junk, lib)

\* constructFakeSymbols without the symbol after the last one
FakeSymbols_NoTail(table, base, size, baseName, junk, lib) ==
    LET syms == TreeItems(table)
    IN  FakeSymbolsLoop(syms, Len(syms), base, AddU64(base, size), baseName, junk,
                        lib).newSymbols

\* constructFakeSymbols: the table it swaps in.  junk is the value found in
\* the binding that ARSymbolData(uint64_t) leaves unset, lib the library's
\* way of inserting *symIt
FakeSymbols(table, base, size, baseName, junk, lib) ==
    LET syms == TreeItems(table)
        limit == AddU64(base, size)
        f == FakeSymbolsLoop(syms, Len(syms), base, limit, baseName, junk, lib)
    IN  IF SubU64(limit, f.prevEnd) >= 4
        THEN TreeInsert(f.newSymbols, SyntheticSymbol(f.prevEnd, limit, junk))
        ELSE f.newSymbols


\* ------------------------------------------------------------------------
\* Inputs
\* ------------------------------------------------------------------------
\* the MMAP records: a range containing the others, nested, partially
\* overlapping and disjoint ranges, an empty one, and a second file mapped
\* at the range of the first
MmapEvents ==
    { MmapRecord(4194304, 16384, "/bin/app"),      \* [0x400000, 0x404000)
      MmapRecord(4194304, 16384, "/lib/libc.so"),  \* [0x400000, 0x404000)
      MmapRecord(4198400, 4096, "/lib/libm.so"),   \* [0x401000, 0x402000)
      MmapRecord(4198400, 8192, "/lib/libz.so"),   \* [0x401000, 0x403000)
      MmapRecord(4202496, 8192, "/lib/libdl.so"),  \* [0x402000, 0x404000)
      MmapRecord(4202496, 0, "/lib/empty.so") }    \* [0x402000, 0x402000)

\* sampled addresses, as offsets from 0x400000
IpMain == 4194304 + 4112        \* 0x401010
IpCaller == 4194304 + 8197      \* 0x402005
IpOuter == 4194304 + 12288      \* 0x403000
IpKernel == 4194304 + 1048576   \* 0x500000, never mapped

\* the call chain of the spec's call-graph scenario
ScenarioSample ==
    SampleRecord(IpMain, 7,
                 <<PERF_CONTEXT_USER, IpMain, IpCaller, PERF_CONTEXT_KERNEL,
                   IpKernel, PERF_CONTEXT_USER, IpOuter>>, 0)

\* samples of the main specification
MainSamples ==
    { SampleRecord(ip, 2, <<PERF_CONTEXT_USER, ip>>, 0) :
          ip \in {IpMain, IpCaller, IpKernel} }
    \cup { SampleRecord(IpMain, 2, <<PERF_CONTEXT_KERNEL, IpMain>>, 0),
           SampleRecord(IpMain, 1, <<PERF_CONTEXT_USER>>, 0),
           SampleRecord(IpMain, 128, <<PERF_CONTEXT_USER, IpMain>>, IpCaller),
           SampleRecord(IpMain, 127, <<PERF_CONTEXT_USER, IpMain>>, IpCaller),
           SampleRecord(IpMain, 3, <<PERF_CONTEXT_USER, IpMain, IpOuter>>, 0),
           SampleRecord(IpCaller, 4,
                        <<PERF_CONTEXT_USER, IpCaller, IpOuter, IpKernel>>, 0),
           ScenarioSample }

\* frames of the enumerated call chains: the leaf itself, two callers, an
\* unmapped address, and markers of user, kernel and hypervisor context
WideFrames ==
    {IpMain, IpCaller, IpOuter, IpKernel,
     PERF_CONTEXT_USER, PERF_CONTEXT_KERNEL, PERF_CONTEXT_HV}

\* samples of the sample-processing specification: every combination of first
\* frame, declared size and leaf, and every call chain of up to three frames
\* after the leaf
WideSamples ==
    { SampleRecord(ip, n, <<c0, ip>>, IpCaller) :
          ip \in {IpMain, IpKernel},
          n \in {0, 1, 2, 3, 127, 128},
          c0 \in {PERF_CONTEXT_USER, PERF_CONTEXT_KERNEL, IpMain} }
    \cup { SampleRecord(IpMain, 5, <<PERF_CONTEXT_USER, IpMain, f2, f3, f4>>, 0) :
          f2 \in WideFrames, f3 \in WideFrames, f4 \in WideFrames }
    \cup { SampleRecord(IpMain, 4, <<PERF_CONTEXT_USER, IpMain, f2, f3>>, 0) :
          f2 \in WideFrames, f3 \in WideFrames }
    \cup { SampleRecord(IpMain, 127, <<PERF_CONTEXT_USER, IpMain, f2>>, f) :
          f2 \in WideFrames, f \in {IpOuter} }
    \cup {ScenarioSample}

\* samples that precede the enumerated one in the sample-processing specification
PrefixSamples ==
    { SampleRecord(ip, 2, <<PERF_CONTEXT_USER, ip>>, 0) : ip \in {IpMain, IpCaller} }

\* the records the stream ends in the middle of
CutRecords ==
    { MmapRecord(4202496, 8192, "/lib/libdl.so"),
      SampleRecord(IpMain, 3, <<PERF_CONTEXT_USER, IpMain, IpOuter>>, 0) }

\* ranges the caller resolves into the profile's symbol table
ProfileSymbols ==
    { [start |-> 4198400, end |-> 4198432, name |-> "main"],        \* 0x401000+0x20
      [start |-> 4202496, end |-> 4202512, name |-> "caller"],      \* 0x402000+0x10
      [start |-> 4202500, end |-> 4206600, name |-> "func_402004"], \* overlaps both
      [start |-> 4206336, end |-> 4210688, name |-> "outer"],       \* 0x402f00+0x1100
      [start |-> 4198400, end |-> 4202512, name |-> "text"] }       \* 0x401000+0x1010

\* ------------------------------------------------------------------------
\* Inputs of the resolver: the binary, its companion debug file, objectSize
\* ------------------------------------------------------------------------
\* p_vaddr of the first PT_LOAD segment as linked, and after prelink
LinkBase == 4 * 2^20

PrelinkBase == 8 * 2^20

\* std::map::find: the node of the element equivalent to k, Header for end()
TreeFind(t, k) ==
    LET j == TreeLowerBound(t, k, t[Header].parent, Header)
    IN  IF j = Header THEN Header
        ELSE IF RangeLess(k, t[j].sym) THEN Header
        ELSE j

\* the digits of std::hex
HexDigits == <<"0", "1", "2", "3", "4", "5", "6", "7", "8", "9",
               "a", "b", "c", "d", "e", "f">>

\* ss << std::hex << address
RECURSIVE Hex(_)
Hex(n) == IF n < 16 THEN HexDigits[n + 1]
          ELSE Hex(n \div 16) \o HexDigits[(n % 16) + 1]

\* constructSymbolName
ConstructSymbolName(address) == "func_" \o Hex(address)

\* the name resolve gives the symbol, taking any stored name as it is
ResolvedName_Stored(sym) == sym.name

\* the name resolve gives the symbol
ResolvedName(sym) ==
    IF sym.name = "" THEN ConstructSymbolName(sym.start) ELSE sym.name

\* the symbol resolve emits for a stored symbol
Emitted(sym, adjust) ==
    [start |-> AddU64(sym.start, adjust), end |-> AddU64(sym.end, adjust),
     name |-> ResolvedName(sym)]

\* do { ++first; } while (first != last && first->first - adjust < end)
RECURSIVE SkipCovered(_, _, _, _)
SkipCovered(entries, i, adjust, end) ==
    IF i + 1 > Len(entries) THEN i + 1
    ELSE IF SubU64(entries[i + 1], adjust) < end
         THEN SkipCovered(entries, i + 1, adjust, end)
         ELSE i + 1

\* the loop of resolve from the i-th entry on, on the SymbolStorage out
RECURSIVE ResolveFrom(_, _, _, _, _)
ResolveFrom(t, entries, i, adjust, out) ==
    IF i > Len(entries) THEN out
    ELSE LET arSymIt == TreeFind(t, PointRange(SubU64(entries[i], adjust)))
         IN  IF arSymIt = Header
             THEN ResolveFrom(t, entries, i + 1, adjust, out)
             ELSE ResolveFrom(t, entries,
                              SkipCovered(entries, i, adjust, t[arSymIt].sym.end),
                              adjust, MapInsert(out, Emitted(t[arSymIt].sym, adjust)))

\* AddressResolver::resolve(first, last, loadBase, symbols)
ResolveEntries(t, base, entries, loadBase, out) ==
    ResolveFrom(t, entries, 1, SubU64(loadBase, base), out)

\* the symbols a table draws from, at offsets from the base the file was
\* linked at; tag tells the tables apart by the names of their symbols
SymbolPool(tag, base) ==
    { ElfFunction(tag \o "f_local", base + 16, 16, STB_LOCAL),
      ElfFunction(tag \o "f_global", base + 16, 16, STB_GLOBAL),
      ElfFunction(tag \o "f_weak", base + 16, 16, STB_WEAK),
      ElfFunction(tag \o "g_global", base + 16, 16, STB_GLOBAL),
      ElfFunction(tag \o "over", base + 24, 16, STB_GLOBAL),
      ElfFunction(tag \o "lab_weak", base + 48, 0, STB_WEAK),
      ElfFunction(tag \o "one_local", base + 48, 1, STB_LOCAL),
      ElfFunction(tag \o "lab_below", base - 8, 0, STB_GLOBAL),
      ElfFunction(tag \o "below", base - 4, 4, STB_GLOBAL),
      [ElfFunction(tag \o "data", base + 16, 16, STB_GLOBAL) EXCEPT !.st_type = "STT_OBJECT"],
      [ElfFunction(tag \o "undef", 0, 0, STB_GLOBAL) EXCEPT !.st_shndx = "SHN_UNDEF"] }

\* the sequences of at most n different elements of S
SeqsUpTo(S, n) ==
    UNION {{s \in [1..k -> S] : \A i, j \in 1..k : i # j => s[i] # s[j]} : k \in 0..n}

\* the symbol tables of at most MaxSectionSymbols symbols
SymbolSections(tag, base) ==
    {SymbolSection(syms) : syms \in SeqsUpTo(SymbolPool(tag, base), MaxSectionSymbols)}

\* one fixed table of each kind
SomeSymTab(base) ==
    SymbolSection(<<ElfFunction("symtab.f_global", base + 16, 16, STB_GLOBAL),
                    ElfFunction("symtab.one_local", base + 48, 1, STB_LOCAL)>>)

SomeDynSym(base) ==
    SymbolSection(<<ElfFunction("dynsym.f_global", base + 16, 16, STB_GLOBAL)>>)

SomeDebugSymTab ==
    SymbolSection(<<ElfFunction("debug.f_local", LinkBase + 16, 16, STB_LOCAL),
                    ElfFunction("debug.lab_weak", LinkBase + 48, 0, STB_WEAK)>>)

\* a table whose last symbol reaches over both symbols before it
SpanningSymTab(base) ==
    SymbolSection(<<ElfFunction("symtab.f_global", base + 16, 16, STB_GLOBAL),
                    ElfFunction("symtab.one_local", base + 48, 1, STB_LOCAL),
                    ElfFunction("symtab.wide_weak", base + 24, 32, STB_WEAK)>>)

ElfFile(base, symTab, dynSym, debugLink, undo) ==
    [phdrs |-> <<Phdr("PT_PHDR", base + 64), Phdr("PT_LOAD", base),
                 Phdr("PT_LOAD", base + 2^21)>>,
     sections |-> [SymTab |-> symTab, DynSym |-> dynSym, DebugLink |-> debugLink,
                   PrelinkUndo |-> undo]]

\* the companion debug file: linked at LinkBase, with or without a SymTab
DebugFile(symTab) == ElfFile(LinkBase, symTab, NoSymbols, FALSE, NoPrelinkUndo)

\* the binary as linked, and prelinked to another base with the program
\* headers it was linked with saved in .gnu.prelink_undo
Builds ==
    { [base |-> LinkBase, undo |-> NoPrelinkUndo],
      [base |-> PrelinkBase,
       undo |-> PrelinkUndoSection(<<Phdr("PT_PHDR", LinkBase + 64),
                                     Phdr("PT_LOAD", LinkBase)>>)] }

\* the fileName argument of the constructor
FileName == <<"usr", "bin", "foo">>

\* the files ::open finds: the binary alone, or with its companion
BinaryOnly(binary) == FileName :> binary

WithDebugFile(binary, debug) ==
    (FileName :> binary) @@ (DebugModuleName(FileName) :> debug)

\* the binary as linked, with each symbol table in turn drawn from all
\* tables: its SymTab, with and without a debug link; its DynSym, without
\* a debug link and with one to a companion with a SymTab; the SymTab of
\* its companion
TableSystems ==
    {WithDebugFile(ElfFile(LinkBase, symTab, SomeDynSym(LinkBase), debugLink, NoPrelinkUndo),
                   DebugFile(SomeDebugSymTab)) :
        symTab \in SymbolSections("symtab.", LinkBase), debugLink \in BOOLEAN}
    \cup
    {BinaryOnly(ElfFile(LinkBase, NoSymbols, dynSym, FALSE, NoPrelinkUndo)) :
        dynSym \in SymbolSections("dynsym.", LinkBase)}
    \cup
    {WithDebugFile(ElfFile(LinkBase, NoSymbols, dynSym, TRUE, NoPrelinkUndo),
                   DebugFile(SomeDebugSymTab)) :
        dynSym \in SymbolSections("dynsym.", LinkBase)}
    \cup
    {WithDebugFile(ElfFile(LinkBase, NoSymbols, NoSymbols, TRUE, NoPrelinkUndo),
                   DebugFile(symTab)) :
        symTab \in SymbolSections("debug.", LinkBase)}

\* the binary as linked and prelinked, with every choice of sections, its
\* companion missing, without a SymTab and with one
SectionSystems ==
    UNION {
        {BinaryOnly(ElfFile(b.base, symTab, dynSym, debugLink, b.undo)) :
            symTab \in {NoSymbols, SomeSymTab(b.base)},
            dynSym \in {NoSymbols, SomeDynSym(b.base)},
            debugLink \in BOOLEAN}
        \cup
        {WithDebugFile(ElfFile(b.base, symTab, dynSym, debugLink, b.undo), DebugFile(debug)) :
            symTab \in {NoSymbols, SomeSymTab(b.base)},
            dynSym \in {NoSymbols, SomeDynSym(b.base)},
            debugLink \in BOOLEAN,
            debug \in {NoSymbols, SomeDebugSymTab}}
        : b \in Builds}

\* the binary as linked, with the spanning table
SpanningSystems ==
    {BinaryOnly(ElfFile(LinkBase, SpanningSymTab(LinkBase), NoSymbols, FALSE, NoPrelinkUndo))}

\* resolve was not called
NoQuery == [loadBase |-> 0, entries |-> <<>>, called |-> FALSE]

\* no file at fileName at all
NoFiles == [path \in {} |-> NullHolder]

FileSystems == TableSystems \cup SectionSystems \cup SpanningSystems \cup {NoFiles}

\* fixed tables with symbols outside the object: below its base, and a
\* label behind the end of the shorter objects
OutlyingTables ==
    { SymbolSection(<<ElfFunction("dynsym.lab_below", LinkBase - 8, 0, STB_GLOBAL),
                      ElfFunction("dynsym.below", LinkBase - 4, 4, STB_GLOBAL)>>),
      SymbolSection(<<ElfFunction("dynsym.f_global", LinkBase + 16, 16, STB_GLOBAL),
                      ElfFunction("dynsym.lab_weak", LinkBase + 48, 0, STB_WEAK)>>) }

\* the files of the constructions that resolve is called on
ResolveSystems ==
    SectionSystems \cup SpanningSystems \cup {NoFiles}
    \cup {BinaryOnly(ElfFile(LinkBase, NoSymbols, dynSym, FALSE, NoPrelinkUndo)) :
             dynSym \in OutlyingTables}

\* the loadBase argument of resolve: the base the binary was linked at
\* (below the base of the prelinked build) and a mapping high in the
\* address space
HighBase == 2^29 + 2^28

LoadBases == {LinkBase, HighBase}

\* the offsets of the entries from loadBase: in the object, before it and
\* at its end
EntryOffsets == {-6, 0, 3, 17, 24, 33, 48, 63, 64}

\* the address at the offset o from loadBase, in 64-bit arithmetic
EntryAddress(loadBase, o) == (loadBase + o + AddrModulus) % AddrModulus

\* ascending sequence of the addresses of S, as EntryStorage iterates
RECURSIVE Ascending(_)
Ascending(S) ==
    IF S = {} THEN <<>>
    ELSE LET least == CHOOSE a \in S : \A b \in S : a <= b
         IN  <<least>> \o Ascending(S \ {least})

\* the entries of a memory object mapped at loadBase
EntrySeqs(loadBase) ==
    {Ascending(S) : S \in {T \in SUBSET {EntryAddress(loadBase, o) : o \in EntryOffsets} :
                              Cardinality(T) <= MaxEntries}}

\* the descriptors open as the constructor is called: stdin, stdout and
\* stderr, or these with stdin closed
StandardFds == {0, 1, 2}

\* the objectSize argument: shorter than a gap to fill, ending two bytes
\* after a symbol and before others, and reaching past most symbols
ObjectSizes == {2, 34, 64}

\* ------------------------------------------------------------------------
\* Profile
\* ------------------------------------------------------------------------
InitProfile ==
    /\ memoryObjects = <<>>
    /\ symbols = <<>>
    /\ mmapEventCount = 0
    /\ goodSamplesCount = 0
    /\ badSamplesCount = 0
    /\ event = OtherRecord
    /\ mode \in {"Flat", "CallGraph"}
    /\ phase = "reading"
    /\ stream = <<>>
    /\ fixups = 0

\* the resolver before its constructor runs
NoResolver ==
    /\ arPc = "none"
    /\ files = NoFiles
    /\ objectSize = 0
    /\ elfh = NullHolder
    /\ openFds = {0, 1, 2}
    /\ sysCalls = <<>>
    /\ baseAddress = 0
    /\ origBaseAddress = 0
    /\ arSymbols = EmptyTree
    /\ symTabLoaded = FALSE
    /\ query = NoQuery

Init == InitProfile /\ NoResolver

\* Profile::load reads one record of type PERF_RECORD_MMAP
ReadMmap(ev) ==
    /\ phase = "reading"
    /\ Len(stream) < MaxRecords
    /\ event' = ev
    /\ stream' = Append(stream, ev.type)
    /\ memoryObjects' = ProcessMmapEvent(memoryObjects, ev)
    /\ mmapEventCount' = mmapEventCount + 1
    /\ UNCHANGED <<symbols, goodSamplesCount, badSamplesCount, mode, phase, fixups>>
    /\ UNCHANGED resolverVars

\* Profile::load reads one record of type PERF_RECORD_SAMPLE
ReadSample(ev) ==
    /\ phase = "reading"
    /\ Len(stream) < MaxRecords
    /\ event' = ev
    /\ stream' = Append(stream, ev.type)
    /\ LET r == ProcessSampleEvent(memoryObjects, goodSamplesCount,
                                   badSamplesCount, ev, mode)
       IN  /\ memoryObjects' = r.objs
           /\ goodSamplesCount' = r.good
           /\ badSamplesCount' = r.bad
    /\ UNCHANGED <<symbols, mmapEventCount, mode, phase, fixups>>
    /\ UNCHANGED resolverVars

\* Profile::load reads one record of a type its switch has no case for
ReadOther ==
    /\ phase = "reading"
    /\ Len(stream) < MaxRecords
    /\ event' = OtherRecord
    /\ stream' = Append(stream, OtherRecord.type)
    /\ UNCHANGED <<memoryObjects, symbols, mmapEventCount, goodSamplesCount,
                   badSamplesCount, mode, phase, fixups>>
    /\ UNCHANGED resolverVars

\* Profile::load finds the stream at its end, drops the memory objects
\* without entries and returns
EndOfStream ==
    /\ phase = "reading"
    /\ phase' = "loaded"
    /\ memoryObjects' = DropEmptyObjects(memoryObjects)
    /\ event' = OtherRecord      \* the buffer is a local of load
    /\ UNCHANGED <<symbols, mmapEventCount, goodSamplesCount, badSamplesCount,
                   mode, stream, fixups>>
    /\ UNCHANGED resolverVars

\* Profile::load reads a record that the stream holds only got parts of
\* (the read fails or meets the end of the file in the middle of rec), and
\* returns
ReadCutRecord(rec, got) ==
    /\ phase = "reading"
    /\ Len(stream) < MaxRecords
    /\ stream' = Append(stream, CutRecord)
    /\ LET r == StreamRead(event, rec, got)
           p == ProcessRecord(memoryObjects, mmapEventCount, goodSamplesCount,
                              badSamplesCount, r.event, mode)
       IN  IF LoadBreaks(r)
           THEN /\ phase' = "loaded"
                /\ memoryObjects' = DropEmptyObjects(memoryObjects)
                /\ event' = OtherRecord
                /\ UNCHANGED <<mmapEventCount, goodSamplesCount, badSamplesCount>>
           ELSE /\ phase' = phase
                /\ memoryObjects' = p.objs
                /\ mmapEventCount' = p.mmaps
                /\ goodSamplesCount' = p.good
                /\ badSamplesCount' = p.bad
                /\ event' = r.event
    /\ UNCHANGED <<symbols, mode, fixups>>
    /\ UNCHANGED resolverVars

\* the caller resolves a symbol into Profile::symbols()
InsertSymbol(sym) ==
    /\ phase = "loaded"
    /\ Len(symbols) < MaxProfileSymbols
    /\ MapCanInsert(symbols, sym)
    /\ symbols' = MapInsert(symbols, sym)
    /\ UNCHANGED <<memoryObjects, mmapEventCount, goodSamplesCount,
                   badSamplesCount, event, mode, phase, stream, fixups>>
    /\ UNCHANGED resolverVars

\* Profile::fixupBranches
FixupBranches ==
    /\ phase = "loaded"
    /\ fixups < MaxFixups
    /\ fixups' = fixups + 1
    /\ memoryObjects' = FixupObjects(memoryObjects, symbols)
    /\ UNCHANGED <<symbols, mmapEventCount, goodSamplesCount, badSamplesCount,
                   event, mode, phase, stream>>
    /\ UNCHANGED resolverVars

Next ==
    \/ \E ev \in MmapEvents : ReadMmap(ev)
    \/ \E ev \in MainSamples : ReadSample(ev)
    \/ ReadOther
    \/ EndOfStream
    \/ \E rec \in CutRecords, got \in 1..(RecordParts - 1) : ReadCutRecord(rec, got)
    \/ \E sym \in ProfileSymbols : InsertSymbol(sym)
    \/ FixupBranches

Spec == Init /\ [][Next]_vars

\* ------------------------------------------------------------------------
\* Sample processing over the enumerated samples: records of the main
\* inputs first, and an enumerated sample as the last record of the bound
\* ------------------------------------------------------------------------
ReadPrefixMmap(ev) ==
    /\ Len(stream) < MaxRecords - 1
    /\ ReadMmap(ev)

ReadPrefixSample(ev) ==
    /\ Len(stream) < MaxRecords - 1
    /\ ReadSample(ev)

ReadWideSample(ev) ==
    /\ Len(stream) = MaxRecords - 1
    /\ ReadSample(ev)

NextSample ==
    \/ \E ev \in MmapEvents : ReadPrefixMmap(ev)
    \/ \E ev \in PrefixSamples : ReadPrefixSample(ev)
    \/ \E ev \in WideSamples : ReadWideSample(ev)

SpecSample == Init /\ [][NextSample]_vars

\* ------------------------------------------------------------------------
\* AddressResolver::AddressResolver, statement by statement
\* ------------------------------------------------------------------------
\* new AddressResolverPrivate, for some binary and objectSize
InitResolver ==
    /\ arPc = "new"
    /\ \/ files \in FileSystems /\ openFds = StandardFds
       \/ files \in SectionSystems \cup {NoFiles} /\ openFds = StandardFds \ {0}
    /\ objectSize \in ObjectSizes
    /\ elfh = NullHolder
    /\ sysCalls = <<>>
    /\ baseAddress = 0
    /\ origBaseAddress = 0
    /\ arSymbols = EmptyTree
    /\ symTabLoaded = FALSE
    /\ query = NoQuery
    /\ InitProfile
    /\ mode = "Flat"

\* ElfHolder elfh(fileName); d->origBaseAddress = d->baseAddress = ...
OpenBinary ==
    /\ arPc = "new"
    /\ arPc' = "opened"
    /\ LET e == HolderNew([h |-> elfh, fds |-> openFds, calls |-> sysCalls],
                          files, FileName)
       IN  /\ elfh' = e.h
           /\ openFds' = e.fds
           /\ sysCalls' = e.calls
           /\ baseAddress' = e.h.baseAddress
           /\ origBaseAddress' = e.h.baseAddress
    /\ UNCHANGED <<files, objectSize, arSymbols, symTabLoaded>>
    /\ UNCHANGED <<profileVars, query>>

\* the load of .symtab, else of .dynsym, from the binary
LoadBinarySymbols ==
    /\ arPc = "opened"
    /\ arPc' = "mainLoaded"
    /\ symTabLoaded' = elfh.sections.SymTab.present
    /\ arSymbols' =
          IF elfh.sections.SymTab.present
          THEN TreeOf(LoadSymbolsFromSection(elfh.sections.SymTab.syms,
                                             baseAddress, origBaseAddress))
          ELSE IF elfh.sections.DynSym.present
          THEN TreeOf(LoadSymbolsFromSection(elfh.sections.DynSym.syms,
                                             baseAddress, origBaseAddress))
          ELSE arSymbols
    /\ UNCHANGED <<files, objectSize, elfh, openFds, sysCalls, baseAddress,
                   origBaseAddress>>
    /\ UNCHANGED <<profileVars, query>>

\* if (PrelinkUndo && DebugLink) setOriginalBaseAddress(...)
SetOriginalBaseAddress ==
    /\ arPc = "mainLoaded"
    /\ arPc' = "relocated"
    /\ origBaseAddress' =
          IF elfh.sections.PrelinkUndo.present /\ elfh.sections.DebugLink
          THEN OriginalBaseAddress(origBaseAddress, elfh.sections.PrelinkUndo)
          ELSE origBaseAddress
    /\ UNCHANGED <<files, objectSize, elfh, openFds, sysCalls, baseAddress,
                   arSymbols, symTabLoaded>>
    /\ UNCHANGED <<profileVars, query>>

\* if (DebugLink) { ... if (!symTabLoaded) { close, open, load .symtab } }
LoadDebugSymbols ==
    /\ arPc = "relocated"
    /\ arPc' = "debugDone"
    /\ LET e == IF ReadsDebugFile(elfh.sections, symTabLoaded)
                THEN HolderOpen(HolderClose([h |-> elfh, fds |-> openFds,
                                             calls |-> sysCalls]),
                                files, DebugModuleName(FileName))
                ELSE [h |-> elfh, fds |-> openFds, calls |-> sysCalls]
       IN  /\ elfh' = e.h
           /\ openFds' = e.fds
           /\ sysCalls' = e.calls
           /\ arSymbols' =
                 IF ReadsDebugFile(elfh.sections, symTabLoaded)
                 THEN IF e.h.sections.SymTab.present
                      THEN TreeOf(LoadSymbolsFromSection(e.h.sections.SymTab.syms,
                                                         baseAddress, origBaseAddress))
                      ELSE arSymbols
                 ELSE arSymbols
    /\ UNCHANGED <<files, objectSize, baseAddress, origBaseAddress, symTabLoaded>>
    /\ UNCHANGED <<profileVars, query>>

\* elfh.close()
CloseElf ==
    /\ arPc = "debugDone"
    /\ arPc' = "closed"
    /\ LET e == HolderClose([h |-> elfh, fds |-> openFds, calls |-> sysCalls])
       IN  /\ elfh' = e.h
           /\ openFds' = e.fds
           /\ sysCalls' = e.calls
    /\ UNCHANGED <<files, objectSize, baseAddress, origBaseAddress, arSymbols,
                   symTabLoaded>>
    /\ UNCHANGED <<profileVars, query>>

\* d->constructFakeSymbols(objectSize, basename(fileName)), and ~ElfHolder
\* as the constructor returns
ConstructFakeSymbols ==
    /\ arPc = "closed"
    /\ arPc' = "constructed"
    /\ \E junk \in Bindings, lib \in MapLibraries :
          arSymbols' = FakeSymbols(arSymbols, baseAddress, objectSize,
                                   Basename(FileName), junk, lib)
    /\ LET e == HolderDelete([h |-> elfh, fds |-> openFds, calls |-> sysCalls])
       IN  /\ elfh' = e.h
           /\ openFds' = e.fds
           /\ sysCalls' = e.calls
    /\ UNCHANGED <<files, objectSize, baseAddress, origBaseAddress, symTabLoaded>>
    /\ UNCHANGED <<profileVars, query>>

\* AddressResolver::resolve on the entries of one memory object
Resolve(loadBase, entries) ==
    /\ arPc = "constructed"
    /\ arPc' = "resolved"
    /\ query' = [loadBase |-> loadBase, entries |-> entries, called |-> TRUE]
    /\ symbols' = ResolveEntries(arSymbols, baseAddress, entries, loadBase, symbols)
    /\ UNCHANGED <<memoryObjects, mmapEventCount, goodSamplesCount, badSamplesCount,
                   event, mode, phase, stream, fixups>>
    /\ UNCHANGED <<files, objectSize, elfh, openFds, sysCalls, baseAddress,
                   origBaseAddress, arSymbols, symTabLoaded>>

NextResolver ==
    \/ OpenBinary
    \/ LoadBinarySymbols
    \/ SetOriginalBaseAddress
    \/ LoadDebugSymbols
    \/ CloseElf
    \/ ConstructFakeSymbols

SpecResolver == InitResolver /\ [][NextResolver]_vars

\* the constructor on the files of ResolveSystems
InitResolve ==
    /\ arPc = "new"
    /\ files \in ResolveSystems
    /\ objectSize \in ObjectSizes
    /\ openFds = StandardFds
    /\ elfh = NullHolder
    /\ sysCalls = <<>>
    /\ baseAddress = 0
    /\ origBaseAddress = 0
    /\ arSymbols = EmptyTree
    /\ symTabLoaded = FALSE
    /\ query = NoQuery
    /\ InitProfile
    /\ mode = "Flat"

NextResolve ==
    \/ NextResolver
    \/ \E loadBase \in LoadBases : \E entries \in EntrySeqs(loadBase) :
          Resolve(loadBase, entries)

SpecResolve == InitResolve /\ [][NextResolve]_vars

\* ------------------------------------------------------------------------
\* Vocabulary of the properties
\* ------------------------------------------------------------------------
\* address a lies in the range r = [start, end)
InRange(a, r) == r.start <= a /\ a < r.end

\* the ranges r1 and r2 share an address
Overlaps(r1, r2) == \E lo \in {r1.start, r2.start} :
                        InRange(lo, r1) /\ InRange(lo, r2)

\* the step reads a record of type t
ReadsRecord(t) == stream' = Append(stream, t)

\* the count of the entry at address a of the memory object o (0: no entry)
CountAt(o, a) == IF a \in DOMAIN o.entries THEN o.entries[a].count ELSE 0

\* the weight of the branch from -> to of the memory object o (0: no branch)
WeightAt(o, from, to) ==
    IF from \in DOMAIN o.entries
    THEN IF to \in DOMAIN o.entries[from].branches
         THEN o.entries[from].branches[to] ELSE 0
    ELSE 0

\* every <<from, to>> that is a branch of the memory object o
BranchesOf(o) ==
    UNION { { <<from, to>> : to \in DOMAIN o.entries[from].branches } :
            from \in DOMAIN o.entries }

SampleRecordsRead == Cardinality({i \in DOMAIN stream : stream[i] = PERF_RECORD_SAMPLE})

\* ------------------------------------------------------------------------
\* Properties of Profile::load
\* ------------------------------------------------------------------------

\* C1: goodSamplesCount + badSamplesCount is the number of SAMPLE records read
\* so far; a step that reads a SAMPLE record adds exactly 1 to exactly one of
\* the two counters, and a step that reads an MMAP record or a record of
\* another type changes neither.
C1_SampleCounters ==
    /\ [](goodSamplesCount + badSamplesCount = SampleRecordsRead)
    /\ [][ /\ ReadsRecord(PERF_RECORD_SAMPLE) =>
                \/ goodSamplesCount' = goodSamplesCount + 1
                   /\ badSamplesCount' = badSamplesCount
                \/ goodSamplesCount' = goodSamplesCount
                   /\ badSamplesCount' = badSamplesCount + 1
           /\ (ReadsRecord(PERF_RECORD_MMAP) \/ ReadsRecord(PERF_RECORD_COMM)) =>
                /\ goodSamplesCount' = goodSamplesCount
                /\ badSamplesCount' = badSamplesCount ]_vars

\* load has returned from a stream with an MMAP record, a good sample and a
\* bad sample
C1_Witness ==
    /\ phase = "loaded"
    /\ goodSamplesCount >= 1
    /\ badSamplesCount >= 1
    /\ \E i \in DOMAIN stream : stream[i] = PERF_RECORD_MMAP

\* C2: the ranges stored in the memory-object map never share an address.
C2_RangesDisjoint ==
    \A i \in DOMAIN memoryObjects : \A j \in DOMAIN memoryObjects :
        i # j => ~Overlaps(memoryObjects[i], memoryObjects[j])

\* two memory objects are stored and a third MMAP record was refused
C2_Witness ==
    /\ phase = "reading"
    /\ Len(memoryObjects) = 2
    /\ memoryObjects[1].end > memoryObjects[1].start
    /\ memoryObjects[2].end > memoryObjects[2].start
    /\ mmapEventCount = 3

\* C10: the step that ends load leaves only memory objects with an entry,
\* and keeps, unchanged and in order, every memory object that had one.
C10_Housekeeping ==
    [][ (phase = "reading" /\ phase' = "loaded") =>
            /\ \A j \in DOMAIN memoryObjects' :
                   DOMAIN memoryObjects'[j].entries # {}
            /\ \A i \in DOMAIN memoryObjects :
                   DOMAIN memoryObjects[i].entries # {} =>
                       \E j \in DOMAIN memoryObjects' :
                           memoryObjects'[j] = memoryObjects[i]
            /\ Len(memoryObjects') =
                   Cardinality({i \in DOMAIN memoryObjects :
                                    DOMAIN memoryObjects[i].entries # {}}) ]_vars

\* load has returned, a memory object with an entry is left, and more MMAP
\* records were read than memory objects are left
C10_Witness ==
    /\ phase = "loaded"
    /\ Len(memoryObjects) = 1
    /\ DOMAIN memoryObjects[1].entries # {}
    /\ mmapEventCount = 2
    /\ goodSamplesCount = 1

\* C6: a step that reads a SAMPLE record counts it as good, and adds 1 to the
\* count of the entry at ip in the memory object that holds ip, iff
\* callchain[0] is PERF_CONTEXT_USER, 2 <= callchainSize <= 127 and ip lies
\* in a stored range; otherwise it adds 1 to badSamplesCount and leaves the
\* memory-object map as it was.
C6_SampleIsValid(ev, objs) ==
    /\ Callchain(ev, 0) = PERF_CONTEXT_USER
    /\ 2 <= ev.callchainSize
    /\ ev.callchainSize <= 127
    /\ \E i \in DOMAIN objs : InRange(ev.ip, objs[i])

C6_ValidSamples ==
    [][ ReadsRecord(PERF_RECORD_SAMPLE) =>
          IF C6_SampleIsValid(event', memoryObjects)
          THEN /\ goodSamplesCount' = goodSamplesCount + 1
               /\ badSamplesCount' = badSamplesCount
               /\ Len(memoryObjects') = Len(memoryObjects)
               /\ \A i \in DOMAIN memoryObjects :
                      /\ memoryObjects'[i].start = memoryObjects[i].start
                      /\ memoryObjects'[i].end = memoryObjects[i].end
                      /\ memoryObjects'[i].fileName = memoryObjects[i].fileName
                      /\ CountAt(memoryObjects'[i], event'.ip) =
                            CountAt(memoryObjects[i], event'.ip)
                            + (IF InRange(event'.ip, memoryObjects[i]) THEN 1 ELSE 0)
          ELSE /\ goodSamplesCount' = goodSamplesCount
               /\ badSamplesCount' = badSamplesCount + 1
               /\ memoryObjects' = memoryObjects ]_vars

\* the only SAMPLE record read so far declares 127 frames and was counted good
C6_Witness ==
    /\ event.type = PERF_RECORD_SAMPLE
    /\ event.callchainSize = 127
    /\ SampleRecordsRead = 1
    /\ goodSamplesCount = 1

\* C7: in CallGraph mode a valid sample's frames callchain[2..callchainSize)
\* are walked in order; a frame adds a branch iff it is no context marker, no
\* marker other than PERF_CONTEXT_USER was met since the last
\* PERF_CONTEXT_USER marker, it differs from the current callTo and it lies
\* in a memory object; the branch goes from the frame to callTo with weight
\* 1, in the frame's memory object, and the frame becomes callTo.  Nothing
\* else changes but the count of the entry at ip.  For the scenario's call
\* chain with all user addresses mapped the branches added are exactly
\* 0x402005 -> 0x401010 and 0x403000 -> 0x402005.
C7_IsMarker(ev, i) == Callchain(ev, i) > PERF_CONTEXT_MAX

\* a marker other than USER precedes frame i with no USER marker in between
C7_InForeignContext(ev, i) ==
    LET markers == {j \in 2..(i - 1) : C7_IsMarker(ev, j)}
    IN  \E j \in markers :
            /\ Callchain(ev, j) # PERF_CONTEXT_USER
            /\ \A k \in markers : k > j => Callchain(ev, k) # PERF_CONTEXT_USER

\* the frames that are addresses of user context lying in a memory object
C7_Callable(ev, objs) ==
    {i \in 2..(ev.callchainSize - 1) :
        /\ ~C7_IsMarker(ev, i)
        /\ ~C7_InForeignContext(ev, i)
        /\ \E o \in DOMAIN objs : InRange(Callchain(ev, i), objs[o])}

\* callTo when the walk arrives at frame i.  callTo starts as ip and becomes
\* a frame when the frame adds a branch; a callable frame that adds none
\* equals callTo, so callTo is the last callable frame before i, if any.
C7_CallTo(ev, callable, i) ==
    LET seen == {j \in callable : j < i}
    IN  IF seen = {} THEN ev.ip
        ELSE Callchain(ev, CHOOSE j \in seen : \A k \in seen : k <= j)

\* the branches <<from, to>> the walk adds, each with the frames that add it
C7_Added(ev, objs) ==
    LET callable == C7_Callable(ev, objs)
        Branch(i) == <<Callchain(ev, i), C7_CallTo(ev, callable, i)>>
        adding == {i \in callable : Branch(i)[1] # Branch(i)[2]}
    IN  [b \in {Branch(i) : i \in adding} |-> {i \in adding : Branch(i) = b}]

C7_CallGraphWalk ==
    [][ ( /\ ReadsRecord(PERF_RECORD_SAMPLE)
          /\ mode = "CallGraph"
          /\ C6_SampleIsValid(event', memoryObjects) ) =>
          \A added \in {C7_Added(event', memoryObjects)} :
              /\ Len(memoryObjects') = Len(memoryObjects)
              /\ \A o \in DOMAIN memoryObjects :
                   LET old == memoryObjects[o]
                       new == memoryObjects'[o]
                       here == {b \in DOMAIN added : InRange(b[1], old)}
                   IN  /\ BranchesOf(new) = BranchesOf(old) \cup here
                       /\ \A b \in BranchesOf(new) :
                              WeightAt(new, b[1], b[2]) =
                                  WeightAt(old, b[1], b[2])
                                  + (IF b \in here THEN Cardinality(added[b]) ELSE 0)
                       /\ DOMAIN new.entries =
                              DOMAIN old.entries
                              \cup {b[1] : b \in here}
                              \cup (IF InRange(event'.ip, old) THEN {event'.ip} ELSE {})
                       /\ \A a \in DOMAIN new.entries :
                              CountAt(new, a) = CountAt(old, a)
                                  + (IF a = event'.ip /\ InRange(a, old) THEN 1 ELSE 0)
              /\ ( /\ event' = ScenarioSample
                   /\ \A a \in {IpMain, IpCaller, IpOuter} :
                          \E o \in DOMAIN memoryObjects : InRange(a, memoryObjects[o]) )
                 => DOMAIN added = {<<IpCaller, IpMain>>, <<IpOuter, IpCaller>>}
      ]_vars

\* the scenario's sample was read in CallGraph mode with all its user
\* addresses mapped, and its two branches are recorded
C7_Witness ==
    /\ event = ScenarioSample
    /\ mode = "CallGraph"
    /\ goodSamplesCount >= 1
    /\ \E o \in DOMAIN memoryObjects :
           /\ WeightAt(memoryObjects[o], IpCaller, IpMain) = 1
    /\ \E o \in DOMAIN memoryObjects :
           /\ WeightAt(memoryObjects[o], IpOuter, IpCaller) = 1

\* C8: after a call of fixupBranches every branch target either lies in no
\* symbol of the profile's symbol table or is the start of one.
C8_TargetsSnapped ==
    [][ fixups' = fixups + 1 =>
          \A o \in DOMAIN memoryObjects' :
              \A b \in BranchesOf(memoryObjects'[o]) :
                  \/ ~ \E s \in DOMAIN symbols' : InRange(b[2], symbols'[s])
                  \/ \E s \in DOMAIN symbols' : symbols'[s].start = b[2] ]_vars

\* fixupBranches ran and a branch now points at 0x401000, the start of the
\* symbol that holds the sampled address 0x401010
C8_Witness ==
    /\ fixups >= 1
    /\ \E s \in DOMAIN symbols : symbols[s].start = 4198400
    /\ \E o \in DOMAIN memoryObjects :
           \E b \in BranchesOf(memoryObjects[o]) : b[2] = 4198400


\* ------------------------------------------------------------------------
\* Properties of AddressResolver::AddressResolver
\* ------------------------------------------------------------------------
\* the elements of AddressResolverPrivate::symbols, in the order of iteration
Stored == TreeItems(arSymbols)

\* the names of the symbols of a table
NamesOf(table) == {table[i].name : i \in DOMAIN table}

StoredNames == NamesOf(Stored)

\* the file at a path, without program headers and sections when missing
FileAt(path) ==
    IF path \in DOMAIN files THEN files[path]
    ELSE [phdrs |-> <<>>, sections |-> NoSections]

Binary == FileAt(FileName)

Companion == FileAt(DebugModuleName(FileName))

\* the defined function symbols of a symbol table
FunctionSymbols(section) ==
    {section.syms[i] : i \in {j \in DOMAIN section.syms :
                                 /\ section.syms[j].st_type = "STT_FUNC"
                                 /\ section.syms[j].st_shndx # "SHN_UNDEF"}}

BinarySymbols ==
    FunctionSymbols(Binary.sections.SymTab) \cup FunctionSymbols(Binary.sections.DynSym)

CompanionSymbols == FunctionSymbols(Companion.sections.SymTab)

\* the constructor has loaded symbols and not yet rewritten them
SymbolsLoaded == arPc \in {"mainLoaded", "relocated", "debugDone", "closed"}

\* the first PT_LOAD address saved in .gnu.prelink_undo of the binary, the
\* load base when the binary has no such section
UndoneBase ==
    IF Binary.sections.PrelinkUndo.present
    THEN FirstLoadAddress(Binary.sections.PrelinkUndo.phdrs, baseAddress)
    ELSE baseAddress

ExtendedEnd(syms, i, limit) ==
    IF syms[i].size # 0 THEN syms[i].end
    ELSE IF i = Len(syms) THEN limit ELSE syms[i + 1].start

\* the gaps of at least 4 bytes that the loaded symbols leave: between base
\* and the first symbol, between consecutive symbols, and between the last
\* symbol and limit
Gaps(syms, base, limit) ==
    LET lo(i) == IF i = 0 THEN base ELSE ExtendedEnd(syms, i, limit)
        hi(i) == IF i = Len(syms) THEN limit ELSE syms[i + 1].start
    IN  {[start |-> lo(i), end |-> hi(i)] : i \in {j \in 0..Len(syms) : hi(j) - lo(j) >= 4}}

\* the nameless symbols of a table that hold an address of the range g
SyntheticIn(table, g) ==
    {i \in DOMAIN table : /\ table[i].name = ""
                          /\ \E a \in g.start..(g.end - 1) : InRange(a, table[i])}

\* C4: the table constructFakeSymbols leaves covers [loadBase, loadBase +
\* objectSize) with no uncovered gap of 4 or more bytes: every 4 consecutive
\* addresses of the object hold an address of a stored range, and every gap
\* of width >= 4 between loadBase and the first loaded symbol, between two
\* consecutive symbols, and between the last symbol and loadBase +
\* objectSize holds exactly one nameless symbol, which spans exactly that
\* gap and has the width of the gap as its size.
C4_GapsFilled ==
    [][arPc = "closed" =>
          \A syms \in {TreeItems(arSymbols)}, filled \in {TreeItems(arSymbols')},
             limit \in {baseAddress + objectSize} :
              /\ \A a \in baseAddress..(limit - 4) :
                    \E b \in a..(a + 3) : \E i \in DOMAIN filled : InRange(b, filled[i])
              /\ \A g \in Gaps(syms, baseAddress, limit) :
                    /\ Cardinality(SyntheticIn(filled, g)) = 1
                    /\ \A i \in SyntheticIn(filled, g) :
                          /\ filled[i].start = g.start
                          /\ filled[i].end = g.end
                          /\ filled[i].size = g.end - g.start]_vars

\* the constructor has filled the gap before a symbol, the gap between two
\* symbols and the gap after the last symbol of an object
C4_Witness ==
    /\ arPc = "constructed"
    /\ \E i, j \in DOMAIN Stored :
          /\ i + 4 = j
          /\ Stored[i].name = "" /\ Stored[i].start = baseAddress
          /\ Stored[i + 1].name # ""
          /\ Stored[i + 2].name = "" /\ Stored[i + 2].size >= 4
          /\ Stored[i + 3].name # ""
          /\ Stored[j].name = "" /\ Stored[j].end = baseAddress + objectSize

\* the names of the symbols loadSymbolsFromSection keeps of a symbol table
LoadedNames(section) ==
    NamesOf(LoadSymbolsFromSection(section.syms, baseAddress, baseAddress))

\* the constructor has loaded every symbol table it loads
LoadingDone == arPc \in {"debugDone", "closed"}

\* C5, as stated: the binary's SymTab when present, else its DynSym when
\* present, and only when it has neither the SymTab of the companion debug
\* file is the one table the stored symbols are loaded from.
C5_StrictPreference ==
    LoadingDone =>
        StoredNames =
            IF Binary.sections.SymTab.present THEN LoadedNames(Binary.sections.SymTab)
            ELSE IF Binary.sections.DynSym.present
                 THEN LoadedNames(Binary.sections.DynSym)
            ELSE IF Binary.sections.DebugLink
                 THEN LoadedNames(Companion.sections.SymTab)
            ELSE {}

\* C5: the stored symbols are loaded from exactly one table: the binary's
\* SymTab when present; else, when the binary has a debug link and the
\* companion debug file has a SymTab, that SymTab, which replaces the
\* symbols loaded from the binary's DynSym; else the binary's DynSym when
\* present; else there are no symbols.
C5_SourceChosen ==
    LoadingDone =>
        StoredNames =
            IF Binary.sections.SymTab.present THEN LoadedNames(Binary.sections.SymTab)
            ELSE IF Binary.sections.DebugLink /\ Companion.sections.SymTab.present
                 THEN LoadedNames(Companion.sections.SymTab)
            ELSE IF Binary.sections.DynSym.present
                 THEN LoadedNames(Binary.sections.DynSym)
            ELSE {}

\* the constructor loaded symbols from the binary's DynSym and then replaced
\* them by the symbols of the SymTab of the companion debug file
C5_Witness ==
    /\ arPc = "debugDone"
    /\ ~Binary.sections.SymTab.present
    /\ LoadedNames(Binary.sections.DynSym) # {}
    /\ StoredNames # {}
    /\ StoredNames = LoadedNames(Companion.sections.SymTab)
    /\ StoredNames \cap LoadedNames(Binary.sections.DynSym) = {}

\* the symbol table the constructor loads from the binary
BinaryTable ==
    IF Binary.sections.SymTab.present THEN Binary.sections.SymTab
    ELSE Binary.sections.DynSym

IsFunction(e) == e.st_type = "STT_FUNC" /\ e.st_shndx # "SHN_UNDEF"

\* the defined function symbols of a symbol table, in the order of the table
FunctionSeq(section) == SelectSeq(section.syms, IsFunction)

\* the address range of a symbol: a symbol without size takes one byte
ElfRange(e) ==
    [start |-> e.st_value, end |-> e.st_value + IF e.st_size = 0 THEN 1 ELSE e.st_size]

\* the sets of several symbols of funcs of one identical address range that
\* no other symbol of funcs overlaps
Twins(funcs) ==
    {G \in SUBSET DOMAIN funcs :
        /\ Cardinality(G) >= 2
        /\ \A i \in G : \A j \in DOMAIN funcs :
              IF j \in G THEN ElfRange(funcs[j]) = ElfRange(funcs[i])
              ELSE ~Overlaps(ElfRange(funcs[j]), ElfRange(funcs[i]))}

\* the first symbol of G of the strongest binding of G
FirstStrongest(funcs, G) ==
    CHOOSE i \in G : \A j \in G :
        IF funcs[j].st_bind = funcs[i].st_bind THEN i <= j
        ELSE funcs[j].st_bind < funcs[i].st_bind

\* the symbols of G that are stored
Kept(funcs, G) == {i \in G : funcs[i].st_name \in StoredNames}

\* the symbols of G all have a size, or all have none
SameKind(funcs, G) ==
    \A i, j \in G : (funcs[i].st_size = 0) <=> (funcs[j].st_size = 0)

\* C9, as stated: of several function symbols of one table with an
\* identical address range exactly one is kept, the one of the strongest
\* binding (local < global < weak), and among equal bindings the first.
C9_StrongestBindingWins ==
    arPc = "mainLoaded" =>
        \A funcs \in {FunctionSeq(BinaryTable)} : \A G \in Twins(funcs) :
            Kept(funcs, G) = {FirstStrongest(funcs, G)}

\* C9: of several function symbols of one table with an identical address
\* range that all have a size, or all have none, exactly one is kept, the
\* one of the strongest binding (local < global < weak), and among equal
\* bindings the first; of a symbol without size followed by a symbol of size
\* 1 at the same address, the symbol of size 1 is kept, whatever the
\* bindings.
C9_StrongestBindingWinsSameKind ==
    arPc = "mainLoaded" =>
        \A funcs \in {FunctionSeq(BinaryTable)} : \A G \in Twins(funcs) :
            /\ SameKind(funcs, G) => Kept(funcs, G) = {FirstStrongest(funcs, G)}
            /\ \A i, j \in G :
                  (/\ G = {i, j}
                   /\ i < j
                   /\ funcs[i].st_size = 0
                   /\ funcs[j].st_size # 0) => Kept(funcs, G) = {j}

\* a symbol was replaced by a later symbol of the same range and a stronger
\* binding, which is kept
C9_Witness ==
    /\ arPc = "mainLoaded"
    /\ \E funcs \in {FunctionSeq(BinaryTable)} : \E G \in Twins(funcs) :
          /\ SameKind(funcs, G)
          /\ \E i \in G : i < FirstStrongest(funcs, G)
          /\ Kept(funcs, G) = {FirstStrongest(funcs, G)}

\* ------------------------------------------------------------------------
\* Further properties of Profile
\* ------------------------------------------------------------------------
\* the range of the MMAP record ev
MmapRange(ev) == [start |-> ev.address, end |-> ev.address + ev.length]

\* C11: a step that reads an MMAP record whose range shares an address with
\* a stored memory object leaves the memory-object map as it was (ranges,
\* file names, entries, order), counts the record, and load goes on reading.
C11_ClashKeepsFirst ==
    [][ ( /\ ReadsRecord(PERF_RECORD_MMAP)
          /\ \E i \in DOMAIN memoryObjects :
                 Overlaps(memoryObjects[i], MmapRange(event')) ) =>
            /\ memoryObjects' = memoryObjects
            /\ mmapEventCount' = mmapEventCount + 1
            /\ phase' = "reading" ]_vars

\* a second file was mapped at the range of /bin/app and refused, and a
\* sample read after it was counted in /bin/app
C11_Witness ==
    /\ stream = <<PERF_RECORD_MMAP, PERF_RECORD_MMAP, PERF_RECORD_SAMPLE>>
    /\ mmapEventCount = 2
    /\ goodSamplesCount = 1
    /\ Len(memoryObjects) = 1
    /\ memoryObjects[1].fileName = "/bin/app"
    /\ CountAt(memoryObjects[1], IpMain) = 1

\* C15: a step in which the read fails or meets the end of the file in the
\* middle of a record applies nothing of that record and ends load: the
\* counters are as they were, and the end-of-stream housekeeping has run on
\* the map as the earlier complete records left it, so that every memory
\* object with an entry is kept as it was (range, file name, entries,
\* branches), in order, and nothing else is in the map.
C15_CutRecordDropped ==
    [][ ReadsRecord(CutRecord) =>
            /\ phase' = "loaded"
            /\ mmapEventCount' = mmapEventCount
            /\ goodSamplesCount' = goodSamplesCount
            /\ badSamplesCount' = badSamplesCount
            /\ memoryObjects' =
                   SelectSeq(memoryObjects, LAMBDA o : DOMAIN o.entries # {}) ]_vars

\* load returned from a stream that ended in the middle of its third
\* record, with the memory object and the sample of the first two records
C15_Witness ==
    /\ stream = <<PERF_RECORD_MMAP, PERF_RECORD_SAMPLE, CutRecord>>
    /\ phase = "loaded"
    /\ mmapEventCount = 1
    /\ goodSamplesCount = 1
    /\ Len(memoryObjects) = 1
    /\ CountAt(memoryObjects[1], IpMain) = 1

\* the sum of EntryData.count over the entries at the addresses S
RECURSIVE SumCounts(_, _)
SumCounts(entries, S) ==
    IF S = {} THEN 0
    ELSE LET a == CHOOSE x \in S : TRUE
         IN  entries[a].count + SumCounts(entries, S \ {a})

\* the sum of EntryData.count over all entries of the first n memory objects
RECURSIVE TotalCount(_, _)
TotalCount(objs, n) ==
    IF n = 0 THEN 0
    ELSE SumCounts(objs[n].entries, DOMAIN objs[n].entries) + TotalCount(objs, n - 1)

\* the memory objects that have entries, each as its range and the counts
\* of its entries
Counted(objs) ==
    LET kept == SelectSeq(objs, LAMBDA o : DOMAIN o.entries # {})
    IN  [i \in 1..Len(kept) |->
            <<kept[i].start, kept[i].end,
              [a \in DOMAIN kept[i].entries |-> kept[i].entries[a].count]>>]

\* C18: in Flat and in CallGraph mode the counts of all entries of all
\* memory objects always add up to goodSamplesCount; a step that reads a
\* SAMPLE record changes no count but that of the entry at ip, and the
\* entries it creates for callers have count 0; the end of load and
\* fixupBranches leave the count of every entry as it was.
C18_CountsAddUp ==
    /\ [](TotalCount(memoryObjects, Len(memoryObjects)) = goodSamplesCount)
    /\ [][ /\ ReadsRecord(PERF_RECORD_SAMPLE) =>
                /\ Len(memoryObjects') = Len(memoryObjects)
                /\ \A o \in DOMAIN memoryObjects :
                      \A a \in DOMAIN memoryObjects'[o].entries :
                          CountAt(memoryObjects'[o], a) =
                              IF a = event'.ip
                              THEN CountAt(memoryObjects[o], a)
                                   + (goodSamplesCount' - goodSamplesCount)
                              ELSE CountAt(memoryObjects[o], a)
           /\ phase' = "loaded" => Counted(memoryObjects') = Counted(memoryObjects)
         ]_vars

\* in CallGraph mode a sample was counted, its caller has an entry of count
\* 0 with a branch, and load and fixupBranches have run
C18_Witness ==
    /\ mode = "CallGraph"
    /\ phase = "loaded"
    /\ fixups >= 1
    /\ goodSamplesCount = 1
    /\ \E o \in DOMAIN memoryObjects :
          /\ CountAt(memoryObjects[o], IpMain) = 1
          /\ IpOuter \in DOMAIN memoryObjects[o].entries
          /\ CountAt(memoryObjects[o], IpOuter) = 0

\* the sum of the weights of the branches to the targets T
RECURSIVE SumWeights(_, _)
SumWeights(branches, T) ==
    IF T = {} THEN 0
    ELSE LET t == CHOOSE x \in T : TRUE
         IN  branches[t] + SumWeights(branches, T \ {t})

\* the targets of branches that lie in the symbol sym
TargetsIn(branches, sym) == {t \in DOMAIN branches : InRange(t, sym)}

\* C20: a call of fixupBranches keeps the memory objects and their entries,
\* and for every entry its count and the sum of its branch weights; the
\* branches of an entry with targets in one symbol become one branch to the
\* start of the symbol whose weight is the sum of theirs; a branch with a
\* target in no symbol is kept with its weight; and fixupBranches applied
\* again with the same symbol table changes nothing.
C20_FixupConserves ==
    [][ fixups' = fixups + 1 =>
          /\ Len(memoryObjects') = Len(memoryObjects)
          /\ \A o \in DOMAIN memoryObjects :
                /\ memoryObjects'[o].start = memoryObjects[o].start
                /\ memoryObjects'[o].end = memoryObjects[o].end
                /\ DOMAIN memoryObjects'[o].entries = DOMAIN memoryObjects[o].entries
                /\ \A a \in DOMAIN memoryObjects[o].entries :
                      \A old \in {memoryObjects[o].entries[a].branches},
                         new \in {memoryObjects'[o].entries[a].branches} :
                          /\ CountAt(memoryObjects'[o], a) = CountAt(memoryObjects[o], a)
                          /\ SumWeights(new, DOMAIN new) = SumWeights(old, DOMAIN old)
                          /\ \A s \in DOMAIN symbols :
                                TargetsIn(old, symbols[s]) # {} =>
                                    /\ TargetsIn(new, symbols[s]) = {symbols[s].start}
                                    /\ new[symbols[s].start] =
                                          SumWeights(old, TargetsIn(old, symbols[s]))
                          /\ \A t \in DOMAIN old :
                                (\A s \in DOMAIN symbols : ~InRange(t, symbols[s])) =>
                                    /\ t \in DOMAIN new
                                    /\ new[t] = old[t]
          /\ FixupObjects(memoryObjects', symbols') = memoryObjects' ]_vars

\* fixupBranches has run twice on an entry with branches to 0x401010 and
\* 0x402005, which are now one branch of weight 2 to the start of the symbol
\* that holds both
C20_Witness ==
    /\ fixups = 2
    /\ \E s \in DOMAIN symbols : symbols[s].name = "text"
    /\ \E o \in DOMAIN memoryObjects :
          /\ WeightAt(memoryObjects[o], IpOuter, 4198400) = 2
          /\ WeightAt(memoryObjects[o], IpOuter, IpMain) = 0
          /\ WeightAt(memoryObjects[o], IpOuter, IpCaller) = 0

\* ------------------------------------------------------------------------
\* Further properties of AddressResolver
\* ------------------------------------------------------------------------
\* the elements of a table with the range [start, end) and the name name
Holding(table, start, end, name) ==
    {j \in DOMAIN table : /\ table[j].start = start
                          /\ table[j].end = end
                          /\ table[j].name = name}

\* C13: constructFakeSymbols stores every loaded symbol of size 0 with the
\* range [start, start of the next loaded symbol), or [start, loadBase +
\* objectSize) for the last symbol, with that extent as its size and with
\* the name originalName + "@" + basename of the file; it stores every
\* symbol of non-zero size with the range, size and name it was loaded with.
\* The extent is the 64-bit difference the code computes.  The property
\* fails: see the table <lab_below, below> under "lower_bound_hint".
C13_LabelsExtended ==
    [][arPc = "closed" =>
          \A syms \in {TreeItems(arSymbols)}, filled \in {TreeItems(arSymbols')},
             limit \in {baseAddress + objectSize} :
              \A i \in DOMAIN syms :
                  IF syms[i].size = 0
                  THEN \A j \in {ExtendedEnd(syms, i, limit)} :
                          /\ Cardinality(Holding(filled, syms[i].start, j,
                                  syms[i].name \o "@" \o Basename(FileName))) = 1
                          /\ \A k \in Holding(filled, syms[i].start, j,
                                  syms[i].name \o "@" \o Basename(FileName)) :
                                filled[k].size = SubU64(j, syms[i].start)
                  ELSE /\ Cardinality(Holding(filled, syms[i].start, syms[i].end,
                                              syms[i].name)) = 1
                       /\ \A k \in Holding(filled, syms[i].start, syms[i].end,
                                             syms[i].name) :
                             filled[k].size = syms[i].size]_vars

\* C19: after construction the table is well formed for any input symbols
\* and objectSize: every stored range has start < end and lies within
\* [loadBase, loadBase + objectSize), and no two stored ranges overlap.
C19_WellFormed ==
    arPc = "constructed" =>
        \A table \in {TreeItems(arSymbols)} :
            /\ \A i \in DOMAIN table :
                  /\ table[i].start < table[i].end
                  /\ baseAddress <= table[i].start
                  /\ table[i].end <= baseAddress + objectSize
            /\ \A i, j \in DOMAIN table :
                  i # j => ~Overlaps(table[i], table[j])

\* the new symbol is better than the stored one
Better(old, new) == (old.size = 0 /\ new.size > 0) \/ new.binding > old.binding

\* the elements of a table
Elements(table) == {table[i] : i \in DOMAIN table}

\* the table after the first k symbols of the section were read
TableAfter(syms, k) ==
    IF k = Len(syms) THEN TreeItems(arSymbols)
    ELSE LoadSymbolsFromSection(SubSeq(syms, 1, k), baseAddress, origBaseAddress)

\* C16: when loadSymbolsFromSection inserts a symbol whose range overlaps a
\* stored symbol, the stored symbol is replaced by the new one if the new
\* one is better ((oldSize = 0 and newSize > 0) or newBinding > oldBinding),
\* and otherwise the table is unchanged; after a replacement the new symbol
\* is in the table and every other symbol stored before still is.
C16_CollisionPolicy ==
    arPc = "mainLoaded" =>
        \A syms \in {BinaryTable.syms} : \A k \in DOMAIN syms :
            IsFunction(syms[k]) =>
                \A before \in {TableAfter(syms, k - 1)}, after \in {TableAfter(syms, k)},
                   new \in {ARSymbol(syms[k], baseAddress, origBaseAddress)} :
                    \A hit \in {{i \in DOMAIN before : Overlaps(before[i], new)}} :
                        hit # {} =>
                            \E old \in hit :
                                IF Better(before[old], new)
                                THEN /\ new \in Elements(after)
                                     /\ before[old] \notin Elements(after)
                                     /\ \A i \in DOMAIN before \ {old} :
                                           before[i] \in Elements(after)
                                ELSE after = before

\* the call i of the log acquires a descriptor or an ELF handle
Acquires(log, i) ==
    IF log[i].call = "open" THEN log[i].fd >= 0
    ELSE IF log[i].call = "elf_begin" THEN log[i].elf # <<>>
    ELSE FALSE

\* the call j releases what the call i acquired
ReleaseOf(log, i, j) ==
    IF log[i].call = "open"
    THEN log[j].call = "close" /\ log[j].fd = log[i].fd
    ELSE log[j].call = "elf_end" /\ log[j].elf = log[i].elf

\* the calls that release what the call i acquired, before it is acquired anew
Releases(log, i) ==
    {j \in DOMAIN log :
        /\ i < j
        /\ ReleaseOf(log, i, j)
        /\ \A k \in DOMAIN log : (i < k /\ k < j) => log[k] # log[i]}

\* the call j releases a descriptor or a handle (::close(-1) and
\* elf_end(0) release nothing)
ReleasesSome(log, j) ==
    IF log[j].call = "close" THEN log[j].fd >= 0
    ELSE IF log[j].call = "elf_end" THEN log[j].elf # <<>>
    ELSE FALSE

\* C17: on every path through the constructor every descriptor and ELF
\* handle acquired is released at most once, and exactly once when the
\* constructor has returned; nothing is released that is not held; each
\* ::open is called with nothing acquired before still held; when the
\* constructor has returned the holder holds nothing and no descriptor it
\* opened is open.
C17_ReleasedOnce ==
    \A log \in {sysCalls} :
        /\ \A i \in DOMAIN log : Acquires(log, i) =>
              /\ Cardinality(Releases(log, i)) <= 1
              /\ arPc = "constructed" => Cardinality(Releases(log, i)) = 1
        /\ \A j \in DOMAIN log : ReleasesSome(log, j) =>
              \E i \in DOMAIN log : Acquires(log, i) /\ j \in Releases(log, i)
        /\ \A i \in DOMAIN log : log[i].call = "open" =>
              \A k \in 1..(i - 1) : Acquires(log, k) =>
                  \E j \in Releases(log, k) : j < i
        /\ arPc = "constructed" =>
              /\ elfh.fd = -1
              /\ elfh.elf = <<>>
              /\ \A i \in DOMAIN log : log[i].call = "open" => log[i].fd \notin openFds

\* the binary was opened as descriptor 0 and then its companion, and the
\* constructor has returned
C17_Witness ==
    /\ arPc = "constructed"
    /\ Cardinality({i \in DOMAIN sysCalls : Acquires(sysCalls, i)}) = 4
    /\ \E i \in DOMAIN sysCalls : sysCalls[i] = SysCall("open", 0, <<>>)

\* the elements the resolver's table holds
StoredSymbols == {arSymbols[n].sym : n \in 2..Len(arSymbols)}

\* the adjustment of the call of resolve
Adjust == SubU64(query.loadBase, baseAddress)

\* the range of a stored symbol, moved by the adjustment
Moved(sym, by) == [start |-> AddU64(sym.start, by), end |-> AddU64(sym.end, by)]

\* the ranges of a SymbolStorage
RangesOf(table) == {[start |-> table[i].start, end |-> table[i].end] : i \in DOMAIN table}

\* the shifts of a query, none of which moves it across the end of the
\* address space
Shifts == {16, 2^27}

\* the result of the query moved by k: every entry and loadBase k higher
ShiftedResult(k) ==
    ResolveEntries(arSymbols, baseAddress,
                   Ascending({AddU64(query.entries[i], k) : i \in DOMAIN query.entries}),
                   AddU64(query.loadBase, k), <<>>)

NoneExtracted ==
    \/ FileName \notin DOMAIN files
    \/ /\ ~Binary.sections.SymTab.present
       /\ ~Binary.sections.DynSym.present
       /\ ~Binary.sections.DebugLink

\* the addresses of the object the resolver was constructed for
ObjectAddresses == baseAddress..(baseAddress + objectSize - 1)

\* the table consists of nameless symbols that cover the object
SyntheticCover ==
    /\ \A sym \in StoredSymbols : sym.name = ""
    /\ \A a \in ObjectAddresses : \E sym \in StoredSymbols : InRange(a, sym)

\* every entry of the query that lies in the object, mapped at loadBase, has
\* a symbol in Profile::symbols() named func_<hex of the start of the stored
\* symbol>
EntriesNamed ==
    \A i \in DOMAIN query.entries :
        SubU64(query.entries[i], query.loadBase) < objectSize =>
            \E j \in DOMAIN symbols :
                /\ InRange(query.entries[i], symbols[j])
                /\ symbols[j].name = "func_" \o Hex(SubU64(symbols[j].start, Adjust))

\* C14, as stated: when no symbols are extracted the constructor still
\* completes with a table of nameless synthetic symbols that cover the
\* whole of [loadBase, loadBase + objectSize), and every address of that
\* range resolves to a symbol named func_<hex>.
C14_SyntheticCover ==
    NoneExtracted =>
        /\ arPc \in {"constructed", "resolved"} => SyntheticCover
        /\ arPc = "resolved" => EntriesNamed

\* C14: when no symbols are extracted and objectSize is at least 4, the
\* constructor completes with a table of nameless synthetic symbols that
\* cover the whole of [loadBase, loadBase + objectSize), and every address
\* of that range resolves to a symbol named func_<hex>; when objectSize is
\* less than 4 the table is empty and no address resolves.
C14_SyntheticCoverFromFour ==
    NoneExtracted =>
        IF objectSize >= 4
        THEN /\ arPc \in {"constructed", "resolved"} => SyntheticCover
             /\ arPc = "resolved" => EntriesNamed
        ELSE /\ arPc \in {"constructed", "resolved"} => StoredSymbols = {}
             /\ arPc = "resolved" => symbols = <<>>

\* a binary without symbol sections and debug link, linked at 0x400000 and
\* mapped high, resolved an entry at offset 33 to func_400000
C14_Witness ==
    /\ arPc = "resolved"
    /\ NoneExtracted
    /\ FileName \in DOMAIN files
    /\ objectSize = 64
    /\ query.loadBase = HighBase
    /\ query.entries = <<HighBase + 33>>
    /\ symbols = <<[start |-> HighBase, end |-> HighBase + 64, name |-> "func_400000"]>>

====
